---- MODULE Spec2Model ----
(***************************************************************************)
(* Model of the persistent ledger core of taple-core:                      *)
(*   - the partitioned keyed store WrapperLevelDB over an ordered          *)
(*     byte-key backend (commons/src/bd/level_db/wrapper_leveldb.rs),      *)
(*   - the typed repository / ledger facade DB (commons/src/bd/db.rs),     *)
(*   - the request-to-event builders (commons/src/models/event_request.rs).*)
(*                                                                         *)
(* Strings are sequences of Unicode code points (integers).  UTF-8 byte    *)
(* order equals code-point order, so the backend's bytewise comparator is  *)
(* the lexicographic order on these sequences.                             *)
(***************************************************************************)
EXTENDS Integers, Sequences, FiniteSets, TLC

VARIABLES
    db,        \* the shared backend: its entries [key, bytes] in ascending key order
    last,      \* the last operation executed, its arguments and its result
    shadow,    \* history: <<path, user key>> -> value last written through that handle
    sigrun,    \* history: the current run of consecutive set_signatures calls on one slot
    applied    \* history (SpecTerminal): the slots <<sid, sn>> whose apply_event_sourcing
               \* returned Ok

vars == <<db, last, shadow, sigrun, applied>>

----------------------------------------------------------------------------
(* Bounds of the model *)

\* most entries held by the backend in the partitioned-store specification
MaxEntries == 3

\* largest sequence number used by the facade specification
MaxSn == 2

----------------------------------------------------------------------------
(* Strings *)

\* char::MAX, the separator of WrapperLevelDB::new
separator == 1114111

Concat(a, b) == a \o b

starts_with(s, p) ==
    /\ Len(p) <= Len(s)
    /\ \A i \in 1..Len(p) : s[i] = p[i]

\* bytewise (= code point) lexicographic order of the backend's comparator
KeyLess(a, b) ==
    LET n == IF Len(a) < Len(b) THEN Len(a) ELSE Len(b)
        diff == {i \in 1..n : a[i] # b[i]}
    IN  IF diff = {} THEN Len(a) < Len(b)
        ELSE LET i == CHOOSE x \in diff : \A y \in diff : x <= y
             IN  a[i] < b[i]

KeyLeq(a, b) == a = b \/ KeyLess(a, b)

\* str::replace(pat, ""): every non-overlapping match of pat, left to right, removed
RECURSIVE replace_with_empty(_, _)
replace_with_empty(s, pat) ==
    IF Len(pat) = 0 \/ Len(s) = 0 THEN s
    ELSE IF starts_with(s, pat)
         THEN replace_with_empty(SubSeq(s, Len(pat) + 1, Len(s)), pat)
         ELSE <<s[1]>> \o replace_with_empty(SubSeq(s, 2, Len(s)), pat)

\* u64::to_string: the decimal digits of n as code points ('0' = 48)
RECURSIVE to_string(_)
to_string(n) ==
    IF n < 10 THEN <<48 + n>>
    ELSE to_string(n \div 10) \o <<48 + (n % 10)>>

----------------------------------------------------------------------------
(* The ordered byte-key backend (LevelDB) and its iterators.  The backend is the   *)
(* sequence of its entries [key, bytes] in ascending key order; an iterator        *)
(* position is an index into it.                                                   *)

\* the position of an iterator that is not valid
Invalid == 0

StoredKeys(d) == {d[i].key : i \in 1..Len(d)}

IndexOf(d, key) ==
    LET S == {i \in 1..Len(d) : d[i].key = key}
    IN  IF S = {} THEN Invalid ELSE CHOOSE i \in S : TRUE

\* leveldb_iter_seek: the first stored key >= target, in either direction of iteration
iter_seek(d, target) ==
    LET S == {i \in 1..Len(d) : KeyLeq(target, d[i].key)}
    IN  IF S = {} THEN Invalid ELSE CHOOSE i \in S : \A j \in S : i <= j

\* leveldb_iter_next / leveldb_iter_prev on a valid position
iter_next(d, pos) == IF pos < Len(d) THEN pos + 1 ELSE Invalid

iter_prev(d, pos) == IF pos > 1 THEN pos - 1 ELSE Invalid

backend_get(d, key) ==
    LET i == IndexOf(d, key)
    IN  IF i = Invalid THEN [found |-> FALSE, bytes |-> <<>>]
        ELSE [found |-> TRUE, bytes |-> d[i].bytes]

\* a put that keeps the bytes of a key that is already stored
backend_put_once(d, key, bytes) ==
    LET n == Cardinality({j \in 1..Len(d) : KeyLess(d[j].key, key)})
    IN  IF IndexOf(d, key) # Invalid THEN d
        ELSE SubSeq(d, 1, n) \o <<[key |-> key, bytes |-> bytes]>> \o SubSeq(d, n + 1, Len(d))

backend_put(d, key, bytes) ==
    LET i == IndexOf(d, key)
        n == Cardinality({j \in 1..Len(d) : KeyLess(d[j].key, key)})
    IN  IF i # Invalid THEN [d EXCEPT ![i].bytes = bytes]
        ELSE SubSeq(d, 1, n) \o <<[key |-> key, bytes |-> bytes]>> \o SubSeq(d, n + 1, Len(d))

\* a delete that also drops every entry stored after the key
backend_delete_tail(d, key) ==
    LET i == IndexOf(d, key)
    IN  IF i = Invalid THEN d ELSE SubSeq(d, 1, i - 1)

backend_delete(d, key) ==
    LET i == IndexOf(d, key)
    IN  IF i = Invalid THEN d
        ELSE SubSeq(d, 1, i - 1) \o SubSeq(d, i + 1, Len(d))

----------------------------------------------------------------------------
(* Value codec: bincode of a u64 (8 bytes, little endian) *)

RECURSIVE le_bytes(_, _)
le_bytes(v, n) ==
    IF n = 0 THEN <<>> ELSE <<v % 256>> \o le_bytes(v \div 256, n - 1)

RECURSIVE le_value(_)
le_value(bytes) ==
    IF Len(bytes) = 0 THEN 0
    ELSE bytes[1] + 256 * le_value(SubSeq(bytes, 2, Len(bytes)))

\* a codec that keeps only the low byte of the value
serialize_low_byte(value) == le_bytes(value % 256, 8)

serialize(value) == le_bytes(value, 8)

\* bincode::deserialize reads the first 8 bytes and allows trailing bytes
deserialize(bytes) ==
    IF Len(bytes) < 8
    THEN [tag |-> "DeserializeError", v |-> 0]
    ELSE [tag |-> "Ok", v |-> le_value(SubSeq(bytes, 1, 8))]

----------------------------------------------------------------------------
(* WrapperLevelDB: a handle is its selected_table *)

new(table_name) == table_name

build_key(selected_table, key) ==
    Concat(Concat(selected_table, <<separator>>), key)

partition(selected_table, subtable_name) == build_key(selected_table, subtable_name)

\* a table name built without the separator
get_table_name_bare(selected_table) == selected_table

get_table_name(selected_table) == Concat(selected_table, <<separator>>)

create_last_key(selected_table) ==
    Concat(selected_table, <<separator, separator>>)

get_bytes(d, h, key) == backend_get(d, build_key(h, key))

\* the write of put: the serialized value under the physical key
put_bytes(d, h, key, bytes) == backend_put(d, build_key(h, key), bytes)

get(d, h, key) ==
    LET r == get_bytes(d, h, key)
    IN  IF r.found
        THEN deserialize(r.bytes)
        ELSE [tag |-> "EntryNotFoundError", v |-> 0]

put_db(d, h, key, value) == put_bytes(d, h, key, serialize(value))

\* update: the result and the backend afterwards
update_res(d, h, key) ==
    LET old == get(d, h, key)
    IN  IF old.tag = "Ok" THEN old ELSE [tag |-> old.tag, v |-> 0]

\* an update that writes whether or not a value is stored
update_db_upsert(d, h, key, value) == backend_put(d, build_key(h, key), serialize(value))

update_db(d, h, key, value) ==
    IF get(d, h, key).tag = "Ok"
    THEN backend_put(d, build_key(h, key), serialize(value))
    ELSE d

\* del: Ok(Some(old)) / Ok(None), and the backend afterwards
del_res(d, h, key) ==
    LET old == get(d, h, key)
    IN  IF old.tag = "Ok" THEN [tag |-> "Some", v |-> old.v]
        ELSE [tag |-> "None", v |-> 0]

\* a del that leaves the entry in place
del_db_keep(d, h, key) == d

del_db(d, h, key) == backend_delete(d, build_key(h, key))

\* get_all: seek to selected_table (without the separator), then map_while over the
\* forward iterator while the key starts with the table name
RECURSIVE get_all_scan(_, _, _)
get_all_scan(d, h, pos) ==
    IF pos = Invalid \/ ~starts_with(d[pos].key, get_table_name(h))
    THEN <<>>
    ELSE <<d[pos].key>> \o get_all_scan(d, h, iter_next(d, pos))

\* the physical keys get_all yields, in iteration order
get_all_keys(d, h) == get_all_scan(d, h, iter_seek(d, h))

\* the (key, value) pairs returned for the physical keys ks: the table name removed
\* from the key by str::replace, the value deserialized and unwrapped
entries_of(d, h, ks) ==
    IF \E i \in 1..Len(ks) : deserialize(backend_get(d, ks[i]).bytes).tag # "Ok"
    THEN [tag |-> "Panic", items |-> <<>>]
    ELSE [tag |-> "Ok",
          items |-> [i \in 1..Len(ks) |->
                        [key |-> replace_with_empty(ks[i], get_table_name(h)),
                         value |-> deserialize(backend_get(d, ks[i]).bytes).v]]]

get_all(d, h) == entries_of(d, h, get_all_keys(d, h))

\* get_count: seek to the table name (with the separator), count while the keys
\* start with it
RECURSIVE get_count_scan(_, _, _)
get_count_scan(d, h, pos) ==
    IF pos = Invalid \/ ~starts_with(d[pos].key, get_table_name(h))
    THEN 0
    ELSE 1 + get_count_scan(d, h, iter_next(d, pos))

get_count(d, h) == get_count_scan(d, h, iter_seek(d, get_table_name(h)))

\* an abs that keeps the sign
abs_signed(n) == n

abs(n) == IF n < 0 THEN 0 - n ELSE n

\* a closure that only counts
closure_count_only(h, key, count, quantity) == count < abs(quantity)

\* the closure of get_range: accept while inside the table and under the quantity
closure(h, key, count, quantity) ==
    starts_with(key, get_table_name(h)) /\ count < abs(quantity)

RECURSIVE range_forward(_, _, _, _, _)
range_forward(d, h, pos, quantity, count) ==
    IF pos = Invalid \/ ~closure(h, d[pos].key, count, quantity)
    THEN <<>>
    ELSE <<d[pos].key>> \o range_forward(d, h, iter_next(d, pos), quantity, count + 1)

RECURSIVE range_reverse(_, _, _, _, _)
range_reverse(d, h, pos, quantity, count) ==
    IF pos = Invalid \/ ~closure(h, d[pos].key, count, quantity)
    THEN <<>>
    ELSE <<d[pos].key>> \o range_reverse(d, h, iter_prev(d, pos), quantity, count + 1)

FromBeginning == [kind |-> "FromBeginning", key |-> <<>>]
FromEnding == [kind |-> "FromEnding", key |-> <<>>]
FromKey(k) == [kind |-> "FromKey", key |-> k]

\* a cursor key that ignores the key of FromKey
cursor_key_table(h, cursor) ==
    IF cursor.kind = "FromEnding" THEN create_last_key(h) ELSE get_table_name(h)

cursor_key(h, cursor) ==
    CASE cursor.kind = "FromBeginning" -> get_table_name(h)
      [] cursor.kind = "FromEnding" -> create_last_key(h)
      [] OTHER -> build_key(h, cursor.key)

\* get_range: the physical keys yielded, or how the call ends without returning.
\*  - quantity < 0: reverse iterator, seek; FromEnding consumes the seek position with
\*    advance(), so the first next() calls leveldb_iter_prev.  On an iterator that is
\*    not valid (no stored key >= the last key) that call is undefined behaviour in
\*    LevelDB (assert(valid_) in a debug build, a null dereference otherwise): the
\*    process dies either way ("Crash").
\*  - quantity >= 0 and FromEnding: skip(1).next().unwrap() on a reverse iterator
\*    panics when the seek position or the key before it does not exist.
get_range_keys(d, h, cursor, quantity) ==
    LET key == cursor_key(h, cursor)
        pos == iter_seek(d, key)
    IN  IF quantity < 0
        THEN IF cursor.kind = "FromEnding"
             THEN IF pos = Invalid
                  THEN [tag |-> "Crash", keys |-> <<>>]
                  ELSE [tag |-> "Ok",
                        keys |-> range_reverse(d, h, iter_prev(d, pos), quantity, 0)]
             ELSE [tag |-> "Ok", keys |-> range_reverse(d, h, pos, quantity, 0)]
        ELSE IF cursor.kind = "FromEnding"
             THEN IF pos = Invalid \/ iter_prev(d, pos) = Invalid
                  THEN [tag |-> "Panic", keys |-> <<>>]
                  ELSE [tag |-> "Ok",
                        keys |-> range_forward(d, h, iter_seek(d, d[iter_prev(d, pos)].key),
                                               quantity, 0)]
             ELSE [tag |-> "Ok", keys |-> range_forward(d, h, pos, quantity, 0)]

get_range(d, h, cursor, quantity) ==
    LET r == get_range_keys(d, h, cursor, quantity)
    IN  IF r.tag = "Ok" THEN entries_of(d, h, r.keys)
        ELSE [tag |-> r.tag, items |-> <<>>]

----------------------------------------------------------------------------
(* Identifiers, digests and canonical (borsh) encodings *)

\* the digest of a canonical encoding: a hash folded over the encoded bytes
RECURSIVE hash_fold(_, _)
hash_fold(bytes, acc) ==
    IF Len(bytes) = 0 THEN acc
    ELSE hash_fold(SubSeq(bytes, 2, Len(bytes)), (acc * 31 + bytes[1] + 1) % 251)

\* DigestIdentifier::from_serializable_borsh over the encoded value
from_serializable_borsh(bytes) == <<hash_fold(bytes, 7)>>

\* DigestIdentifier::default(): the digest of the empty input
DigestIdentifier_default == from_serializable_borsh(<<>>)

\* DigestIdentifier::to_str: the derivation code 'J' and the digest rendered as text
to_str(digest) == <<74>> \o [i \in 1..Len(digest) |-> 48 + digest[i]]

borsh_digest(digest) == <<Len(digest)>> \o digest

borsh_payload(payload) ==
    <<(IF payload.kind = "Json" THEN 0 ELSE 1), payload.doc>>

borsh_request_type(request) ==
    IF request.type = "Create"
    THEN <<0>> \o borsh_digest(request.data.governance_id)
              \o <<request.data.schema_id, request.data.namespace>>
              \o borsh_payload(request.data.payload)
    ELSE <<1>> \o borsh_digest(request.data.subject_id)
              \o borsh_payload(request.data.payload)

borsh_signature(signature) ==
    <<signature.content.signer>>
        \o borsh_digest(signature.content.event_content_hash)
        \o <<signature.content.timestamp, signature.signature.by>>
        \o borsh_digest(signature.signature.over)

borsh_event_request(req) ==
    borsh_request_type(req.request) \o <<req.timestamp>>
        \o borsh_signature(req.signature) \o <<Cardinality(req.approvals)>>

borsh_metadata(metadata) ==
    <<metadata.namespace>> \o borsh_digest(metadata.governance_id)
        \o <<metadata.governance_version, metadata.schema_id, metadata.owner>>

borsh_event_content(ec) ==
    borsh_digest(ec.subject_id) \o borsh_event_request(ec.event_request)
        \o <<ec.sn>> \o borsh_digest(ec.previous_hash) \o borsh_digest(ec.state_hash)
        \o borsh_metadata(ec.metadata) \o <<(IF ec.approved THEN 1 ELSE 0)>>

borsh_subject_data(sd) ==
    borsh_digest(sd.subject_id) \o borsh_digest(sd.governance_id)
        \o <<sd.governance_version, sd.sn, sd.public_key, sd.namespace, sd.schema_id,
             sd.owner, sd.properties>>

\* the content hash of an event content
event_content_hash(ec) == from_serializable_borsh(borsh_event_content(ec))

\* a signature by a key pair over a digest, and the Signature record that carries it
sign(keys, digest) == [by |-> keys.public_key, over |-> digest]

Signature(signer, digest, timestamp, keys) ==
    [content |-> [signer |-> signer, event_content_hash |-> digest,
                  timestamp |-> timestamp],
     signature |-> sign(keys, digest)]

\* KeyIdentifier::verify: Ok exactly for the signature the signer's key pair makes
\* over the message
verify(signer, message, signature) == signature = sign([public_key |-> signer], message)

\* borsh of the tuple (event_request_hash, approval_type, expected_sn)
borsh_approval_content(content) ==
    borsh_digest(content.event_request_hash)
        \o <<(IF content.approval_type = "Accept" THEN 0 ELSE 1), content.expected_sn>>

\* Option<T>: None is the empty sequence, Some(x) the sequence <<x>>
None == <<>>
Some(x) == <<x>>

----------------------------------------------------------------------------
(* Subject (models/state.rs), as the specification describes it *)

\* the JSON documents the subject schema accepts; document 0 is not JSON at all
SubjectSchema == {1, 2}

\* the properties a payload yields: the document of a Json payload, validated
apply_payload(payload, subject_schema) ==
    IF payload.doc = 0 THEN [tag |-> "ErrorParsingJsonString", v |-> 0]
    ELSE IF payload.doc \notin subject_schema
         THEN [tag |-> "SchemaValidationFailed", v |-> 0]
         ELSE [tag |-> "Ok", v |-> payload.doc]

request_payload(req) == req.request.data.payload

LedgerState_default ==
    [head_sn |-> 0, head_candidate_sn |-> 0, negociating_next |-> FALSE]

\* Subject::new: the subject an initial event content creates, holding the key pair
Subject_new(ec, public_key, keys, subject_schema) ==
    LET p == apply_payload(request_payload(ec.event_request), subject_schema)
    IN  IF p.tag # "Ok" THEN [tag |-> p.tag, v |-> None]
        ELSE [tag |-> "Ok",
              v |-> Some([keys |-> keys,
                          subject_data |-> Some(
                              [subject_id |-> ec.subject_id,
                               governance_id |-> ec.metadata.governance_id,
                               governance_version |-> ec.metadata.governance_version,
                               sn |-> ec.sn,
                               public_key |-> public_key,
                               namespace |-> ec.metadata.namespace,
                               schema_id |-> ec.metadata.schema_id,
                               owner |-> ec.metadata.owner,
                               properties |-> p.v]),
                          ledger_state |-> LedgerState_default])]

\* Subject::apply: validate the payload, replace the properties, take the event's sn
Subject_apply(subject, ec) ==
    LET p == apply_payload(request_payload(ec.event_request), SubjectSchema)
    IN  IF p.tag # "Ok" THEN [tag |-> p.tag, v |-> subject]
        ELSE [tag |-> "Ok",
              v |-> [subject EXCEPT !.subject_data =
                        Some([subject.subject_data[1] EXCEPT
                                 !.sn = ec.sn, !.properties = p.v])]]

\* Subject::get_future_subject_content_hash: digest of the subject data the event
\* would leave
get_future_subject_content_hash(subject, ec, subject_schema) ==
    LET p == apply_payload(request_payload(ec.event_request), subject_schema)
    IN  IF p.tag # "Ok" THEN [tag |-> p.tag, v |-> DigestIdentifier_default]
        ELSE [tag |-> "Ok",
              v |-> from_serializable_borsh(borsh_subject_data(
                        [subject.subject_data[1] EXCEPT
                            !.sn = ec.sn, !.properties = p.v]))]

\* Subject::get_signature_from_subject: the event, signed with the subject's keys
get_signature_from_subject(subject, ec, now) ==
    IF subject.keys = None THEN [tag |-> "SubjectHasNoKeys", v |-> None]
    ELSE [tag |-> "Ok",
          v |-> Some([event_content |-> ec,
                      signature |-> Signature(subject.subject_data[1].public_key,
                                              event_content_hash(ec), now,
                                              subject.keys[1])])]

----------------------------------------------------------------------------
(* The request-to-event builders (models/event_request.rs) *)

\* an approval check that does not verify the approval's signature
check_approval_hash_only(hash, approval) ==
    IF hash # approval.content.event_request_hash
    THEN "EventRequestHashingConflict"
    ELSE "Ok"

\* the body of the loop over the approvals: the result for one approval
check_approval(hash, approval) ==
    IF hash # approval.content.event_request_hash
    THEN "EventRequestHashingConflict"
    ELSE LET approval_hash ==
                 from_serializable_borsh(borsh_approval_content(approval.content))
         IN  IF verify(approval.content.signer, approval_hash, approval.signature)
             THEN "Ok"
             ELSE "RequestSignatureInvalid"

\* the loop: the first approval that fails, in iteration order, ends it
RECURSIVE check_approvals(_, _, _)
check_approvals(hash, order, i) ==
    IF i > Len(order) THEN "Ok"
    ELSE IF check_approval(hash, order[i]) # "Ok" THEN check_approval(hash, order[i])
    ELSE check_approvals(hash, order, i + 1)

\* check_signatures; order is the order in which self.approvals.iter() yields
check_signatures(req, order) ==
    LET hash == from_serializable_borsh(borsh_request_type(req.request) \o <<req.timestamp>>)
    IN  IF hash # req.signature.content.event_content_hash
        THEN "EventRequestHashingConflict"
        ELSE IF ~verify(req.signature.content.signer, hash, req.signature.signature)
        THEN "RequestSignatureInvalid"
        ELSE check_approvals(hash, order, 1)

\* Schema::compile: the documents a schema accepts, if it compiles
Schema_compile(schema) == IF schema.compiles THEN Some(schema.accepts) ELSE None

\* serde_json::from_str: string 0 is not JSON, every other string is the document
\* (or the patch) of its number
from_str(string) == IF string = 0 THEN None ELSE Some(string)

\* json_patch::patch: patch n <= 3 replaces the document by document n, a patch with
\* a greater number tests for a member the document lacks and fails
patch(properties, patch_json) ==
    IF patch_json <= 3 THEN Some(patch_json) ELSE None

\* check_against_schema: "Ok" or the name of the SubjectError it returns
check_against_schema(req, schema, subject) ==
    LET subject_schema == Schema_compile(schema)
        payload == req.request.data.payload
    IN  IF subject_schema = None THEN "SchemaDoesNotCompile"
        ELSE IF payload.kind = "Json"
        THEN IF from_str(payload.doc) = None THEN "ErrorParsingJsonString"
             ELSE IF from_str(payload.doc)[1] \notin subject_schema[1]
                  THEN "SchemaValidationFailed"
                  ELSE "Ok"
        ELSE IF from_str(payload.doc) = None THEN "ErrorParsingJsonString"
        ELSE IF subject.subject_data = None THEN "InvalidUseOfJSONPATCH"
        ELSE IF from_str(subject.subject_data[1].properties) = None
             THEN "ErrorParsingJsonString"
        ELSE LET patched == patch(from_str(subject.subject_data[1].properties)[1],
                                  from_str(payload.doc)[1])
             IN  IF patched = None THEN "ErrorApplyingPatch"
                 ELSE IF patched[1] \notin subject_schema[1]
                      THEN "SchemaValidationFailed"
                      ELSE "Ok"

public_key_bytes(mc) == mc.public_key

\* a builder that names the subject's own key as the owner
create_subject_from_request_key_owner(req, mc, now, governance_version, subject_schema, approved) ==
    IF req.request.type # "Create"
    THEN [tag |-> "NotCreateEvent", subject |-> None, event |-> None]
    ELSE
      LET create_req == req.request.data
          subject_id == from_serializable_borsh(
                            borsh_digest(req.signature.content.event_content_hash)
                                \o <<public_key_bytes(mc)>>)
          event_content ==
              [subject_id |-> subject_id,
               event_request |-> req,
               sn |-> 0,
               previous_hash |-> DigestIdentifier_default,
               state_hash |-> DigestIdentifier_default,
               metadata |-> [namespace |-> create_req.namespace,
                             governance_id |-> create_req.governance_id,
                             governance_version |-> governance_version,
                             schema_id |-> create_req.schema_id,
                             owner |-> public_key_bytes(mc)],
               approved |-> approved]
          public_key == public_key_bytes(mc)
          subject == Subject_new(event_content, public_key, Some(mc), subject_schema)
      IN  IF subject.tag # "Ok"
          THEN [tag |-> subject.tag, subject |-> None, event |-> None]
          ELSE
            LET state_hash == get_future_subject_content_hash(
                                  subject.v[1], event_content, subject_schema)
            IN  IF state_hash.tag # "Ok"
                THEN [tag |-> state_hash.tag, subject |-> None, event |-> None]
                ELSE
                  LET event == get_signature_from_subject(
                                   subject.v[1],
                                   [event_content EXCEPT !.state_hash = state_hash.v],
                                   now)
                  IN  IF event.tag # "Ok"
                      THEN [tag |-> event.tag, subject |-> None, event |-> None]
                      ELSE [tag |-> "Ok", subject |-> subject.v, event |-> event.v]

\* create_subject_from_request; mc is the key pair Ed25519KeyPair::new() generates
create_subject_from_request(req, mc, now, governance_version, subject_schema, approved) ==
    IF req.request.type # "Create"
    THEN [tag |-> "NotCreateEvent", subject |-> None, event |-> None]
    ELSE
      LET create_req == req.request.data
          subject_id == from_serializable_borsh(
                            borsh_digest(req.signature.content.event_content_hash)
                                \o <<public_key_bytes(mc)>>)
          event_content ==
              [subject_id |-> subject_id,
               event_request |-> req,
               sn |-> 0,
               previous_hash |-> DigestIdentifier_default,
               state_hash |-> DigestIdentifier_default,
               metadata |-> [namespace |-> create_req.namespace,
                             governance_id |-> create_req.governance_id,
                             governance_version |-> governance_version,
                             schema_id |-> create_req.schema_id,
                             owner |-> req.signature.content.signer],
               approved |-> approved]
          public_key == public_key_bytes(mc)
          subject == Subject_new(event_content, public_key, Some(mc), subject_schema)
      IN  IF subject.tag # "Ok"
          THEN [tag |-> subject.tag, subject |-> None, event |-> None]
          ELSE
            LET state_hash == get_future_subject_content_hash(
                                  subject.v[1], event_content, subject_schema)
            IN  IF state_hash.tag # "Ok"
                THEN [tag |-> state_hash.tag, subject |-> None, event |-> None]
                ELSE
                  LET event == get_signature_from_subject(
                                   subject.v[1],
                                   [event_content EXCEPT !.state_hash = state_hash.v],
                                   now)
                  IN  IF event.tag # "Ok"
                      THEN [tag |-> event.tag, subject |-> None, event |-> None]
                      ELSE [tag |-> "Ok", subject |-> subject.v, event |-> event.v]

\* a builder that numbers the event with the subject's own sn
state_event_sn_same(subject_data) == subject_data.sn

\* the sn of the event a state request produces
state_event_sn(subject_data) == subject_data.sn + 1

get_event_from_state_request(req, subject, prev_event_hash, now, governance_version, subject_schema, approved) ==
    IF req.request.type = "Create"
    THEN [tag |-> "Panic", event |-> None]
    ELSE
      LET state_req == req.request.data
      IN  IF subject.keys = None
          THEN [tag |-> "NotOwnerOfSubject", event |-> None]
          ELSE IF subject.subject_data = None
          THEN [tag |-> "Panic", event |-> None]
          ELSE
            LET subject_data == subject.subject_data[1]
                event_content ==
                    [subject_id |-> state_req.subject_id,
                     event_request |-> req,
                     sn |-> state_event_sn(subject_data),
                     previous_hash |-> prev_event_hash,
                     state_hash |-> DigestIdentifier_default,
                     metadata |-> [namespace |-> subject_data.namespace,
                                   governance_id |-> subject_data.governance_id,
                                   governance_version |-> governance_version,
                                   schema_id |-> subject_data.schema_id,
                                   owner |-> subject_data.owner],
                     approved |-> approved]
                state_hash == get_future_subject_content_hash(
                                  subject, event_content, subject_schema)
            IN  IF state_hash.tag # "Ok"
                THEN [tag |-> state_hash.tag, event |-> None]
                ELSE
                  LET event == get_signature_from_subject(
                                   subject,
                                   [event_content EXCEPT !.state_hash = state_hash.v],
                                   now)
                  IN  [tag |-> event.tag, event |-> event.v]

----------------------------------------------------------------------------
(* The ledger facade DB (bd/db.rs) over the same backend *)

SIGNATURE_TABLE == <<115, 105, 103, 110, 97, 116, 117, 114, 101>>
SUBJECT_TABLE == <<115, 117, 98, 106, 101, 99, 116>>
EVENT_TABLE == <<101, 118, 101, 110, 116>>

signature_db == new(SIGNATURE_TABLE)
subject_db == new(SUBJECT_TABLE)
event_db == new(EVENT_TABLE)

\* value codecs of the typed tables: the fields of the value in declaration order
serialize_event(event) == <<event.event_content, event.signature>>

deserialize_event(bytes) ==
    IF Len(bytes) # 2 THEN [tag |-> "DeserializeError", v |-> None]
    ELSE [tag |-> "Ok",
          v |-> Some([event_content |-> bytes[1], signature |-> bytes[2]])]

serialize_subject(subject) ==
    <<subject.keys, subject.subject_data, subject.ledger_state>>

deserialize_subject(bytes) ==
    IF Len(bytes) # 3 THEN [tag |-> "DeserializeError", v |-> None]
    ELSE [tag |-> "Ok",
          v |-> Some([keys |-> bytes[1], subject_data |-> bytes[2],
                      ledger_state |-> bytes[3]])]

\* the elements of a HashSet in the order its iteration takes; what is read back does
\* not depend on the order, and the model takes one
RECURSIVE iteration_order(_)
iteration_order(set) ==
    IF set = {} THEN <<>>
    ELSE LET x == CHOOSE y \in set : TRUE
         IN  <<x>> \o iteration_order(set \ {x})

\* a HashSet is written as its length and its elements in iteration order
serialize_signatures(set) ==
    <<Cardinality(set)>> \o iteration_order(set)
deserialize_signatures(bytes) ==
    IF Len(bytes) = 0 \/ Len(bytes) # bytes[1] + 1
    THEN [tag |-> "DeserializeError", v |-> {}]
    ELSE [tag |-> "Ok", v |-> {bytes[i] : i \in 2..Len(bytes)}]

\* DB::_get_subject: the Result of reading the subject table
get_subject_result(d, subject_id) ==
    LET id == to_str(subject_id)
        r == get_bytes(d, subject_db, id)
    IN  IF r.found THEN deserialize_subject(r.bytes)
        ELSE [tag |-> "EntryNotFoundError", v |-> None]

get_event(d, subject_id, sn) ==
    LET id == to_str(subject_id)
        events_by_subject == partition(event_db, id)
        r == get_bytes(d, events_by_subject, to_string(sn))
    IN  IF ~r.found THEN [tag |-> "Ok", v |-> None]
        ELSE LET event == deserialize_event(r.bytes)
             IN  IF event.tag = "Ok" THEN event ELSE [tag |-> "Panic", v |-> None]

\* a cursor choice that starts at the beginning whatever the sign of the quantity
events_cursor_beginning(from, quantity) ==
    IF from # None THEN FromKey(from[1]) ELSE FromBeginning

\* get_events_by_range: the cursor chosen from `from` and the sign of the quantity
events_cursor(from, quantity) ==
    IF from # None THEN FromKey(from[1])
    ELSE IF quantity < 0 THEN FromEnding
    ELSE FromBeginning

\* get_events_by_range: the quantity handed to get_range
events_quantity(cursor, quantity) ==
    CASE cursor.kind = "FromBeginning" -> abs(quantity)
      [] cursor.kind = "FromEnding" -> IF quantity > 0 THEN quantity * (0 - 1) ELSE quantity
      [] OTHER -> quantity

\* get_range on a partition of events: the values at the keys yielded, deserialized
\* and unwrapped in the closure
get_range_events(d, h, cursor, quantity) ==
    LET r == get_range_keys(d, h, cursor, quantity)
        value(k) == deserialize_event(backend_get(d, k).bytes)
    IN  IF r.tag # "Ok" THEN [tag |-> r.tag, events |-> <<>>]
        ELSE IF \E i \in 1..Len(r.keys) : value(r.keys[i]).tag # "Ok"
        THEN [tag |-> "Panic", events |-> <<>>]
        ELSE [tag |-> "Ok", events |-> [i \in 1..Len(r.keys) |-> value(r.keys[i]).v[1]]]

get_events_by_range(d, subject_id, from, quantity) ==
    LET id == to_str(subject_id)
        events_by_subject == partition(event_db, id)
        cursor == events_cursor(from, quantity)
    IN  get_range_events(d, events_by_subject, cursor, events_quantity(cursor, quantity))

\* a set_event that keeps every event of a subject under the key of sn 0
set_event_at_zero(d, subject_id, event) ==
    put_bytes(d, partition(event_db, to_str(subject_id)), to_string(0),
              serialize_event(event))

set_event(d, subject_id, event) ==
    LET id == to_str(subject_id)
        events_by_subject == partition(event_db, id)
        sn == to_string(event.event_content.sn)
    IN  put_bytes(d, events_by_subject, sn, serialize_event(event))

\* Some(set) is the record [some |-> TRUE, set |-> set]
get_signatures(d, subject_id, sn) ==
    LET id == to_str(subject_id)
        signatures_by_subject == partition(signature_db, id)
        r == get_bytes(d, signatures_by_subject, to_string(sn))
    IN  IF ~r.found THEN [tag |-> "Ok", some |-> FALSE, set |-> {}]
        ELSE LET signatures == deserialize_signatures(r.bytes)
             IN  IF signatures.tag = "Ok"
                 THEN [tag |-> "Ok", some |-> TRUE, set |-> signatures.v]
                 ELSE [tag |-> "Panic", some |-> FALSE, set |-> {}]

\* a set_signatures that keeps only the new signatures
total_signatures_overwrite(signatures, other) == signatures

\* signatures.union(&other)
total_signatures(signatures, other) == signatures \cup other

\* the signatures set_signatures stores
set_signatures_total(d, subject_id, sn, signatures) ==
    LET other == get_signatures(d, subject_id, sn)
    IN  IF other.some THEN total_signatures(signatures, other.set) ELSE signatures

set_signatures(d, subject_id, sn, total) ==
    LET id == to_str(subject_id)
        signatures_by_subject == partition(signature_db, id)
    IN  put_bytes(d, signatures_by_subject, to_string(sn), serialize_signatures(total))

get_subject(d, subject_id) ==
    LET r == get_subject_result(d, subject_id)
    IN  IF r.tag = "Ok" THEN r
        ELSE IF r.tag = "EntryNotFoundError" THEN [tag |-> "Ok", v |-> None]
        ELSE [tag |-> "Panic", v |-> None]

set_subject(d, subject_id, subject) ==
    LET id == to_str(subject_id)
    IN  put_bytes(d, subject_db, id, serialize_subject(subject))

\* "18446744073709551615", u64::MAX as text
u64_MAX_string ==
    <<49, 56, 52, 52, 54, 55, 52, 52, 48, 55, 51, 55, 48, 57, 53, 53, 49, 54, 49, 53>>

\* a consolidation that collects the aggregate at the event's own sn
sn_minus_one_same(sn) == [overflow |-> FALSE, key |-> to_string(sn)]

\* (event_content.sn - 1).to_string() on a u64: at sn = 0 the subtraction overflows
\* and, where the build does not check it, wraps to u64::MAX
sn_minus_one(sn) ==
    IF sn = 0 THEN [overflow |-> TRUE, key |-> u64_MAX_string]
    ELSE [overflow |-> FALSE, key |-> to_string(sn - 1)]

\* the builds of the crate: overflow checks on (debug) or off (release)
Builds == {"debug", "release"}

\* a del that reports an absent key as a backend error
del_signatures_res_strict(d, h, key) ==
    IF get_bytes(d, h, key).found THEN [tag |-> "Some"] ELSE [tag |-> "LevelDBError"]

\* the Result of del on a partition of the signature table: Ok(Some(old)) when get
\* returned the old aggregate, Ok(None) when it did not; the backend delete of a key
\* that is not stored succeeds
del_signatures_res(d, h, key) ==
    LET r == get_bytes(d, h, key)
    IN  IF r.found /\ deserialize_signatures(r.bytes).tag = "Ok"
        THEN [tag |-> "Some"]
        ELSE [tag |-> "None"]

\* the match on the Result of del in apply_event_sourcing
delete_outcome(res) ==
    IF res.tag \in {"Some", "None"} THEN "Ok"
    ELSE IF res.tag = "EntryNotFoundError" THEN "Ok"
    ELSE "DeleteSignaturesFailed"

\* an apply_event_sourcing that persists the subject at the event's sn and collects
\* the aggregate before it looks at the result of Subject::apply
apply_event_sourcing_eager(d, event_content, build) ==
    LET subject_id == event_content.subject_id
        subject == get_subject_result(d, subject_id)
    IN  IF subject.tag # "Ok" THEN [res |-> "Panic", db |-> d, removed |-> FALSE]
        ELSE
          LET applied_subject == Subject_apply(subject.v[1], event_content)
              d1 == set_subject(d, subject_id,
                                [applied_subject.v EXCEPT !.subject_data =
                                    Some([applied_subject.v.subject_data[1] EXCEPT
                                             !.sn = event_content.sn])])
              signatures_by_subject == partition(signature_db, to_str(subject_id))
              k == sn_minus_one(event_content.sn)
          IN  [res |-> applied_subject.tag,
               db |-> del_db(d1, signatures_by_subject, k.key),
               removed |-> get_bytes(d1, signatures_by_subject, k.key).found]

\* apply_event_sourcing: its result, the backend it leaves and whether its delete
\* found an aggregate
apply_event_sourcing(d, event_content, build) ==
    LET subject_id == event_content.subject_id
        subject == get_subject_result(d, subject_id)
    IN  IF subject.tag # "Ok" THEN [res |-> "Panic", db |-> d, removed |-> FALSE]
        ELSE
          LET applied_subject == Subject_apply(subject.v[1], event_content)
          IN  IF applied_subject.tag # "Ok"
              THEN [res |-> applied_subject.tag, db |-> d, removed |-> FALSE]
              ELSE
                LET d1 == set_subject(d, subject_id, applied_subject.v)
                    id == to_str(subject_id)
                    signatures_by_subject == partition(signature_db, id)
                    k == sn_minus_one(event_content.sn)
                IN  IF k.overflow /\ build = "debug"
                    THEN [res |-> "Panic", db |-> d1, removed |-> FALSE]
                    ELSE [res |-> delete_outcome(
                                      del_signatures_res(d1, signatures_by_subject, k.key)),
                          db |-> del_db(d1, signatures_by_subject, k.key),
                          removed |-> get_bytes(d1, signatures_by_subject, k.key).found]

\* a set_negociating_true that reports Ok for a subject that is not stored
set_negociating_true_lenient(d, subject_id) ==
    LET subject == get_subject_result(d, subject_id)
    IN  IF subject.tag # "Ok" THEN [res |-> "Ok", db |-> d]
        ELSE [res |-> "Ok",
              db |-> set_subject(d, subject_id,
                         [subject.v[1] EXCEPT !.ledger_state.negociating_next = TRUE])]

set_negociating_true(d, subject_id) ==
    LET subject == get_subject_result(d, subject_id)
    IN  IF subject.tag = "EntryNotFoundError"
        THEN [res |-> "SubjectNotFound", db |-> d]
        ELSE IF subject.tag # "Ok" THEN [res |-> "Panic", db |-> d]
        ELSE [res |-> "Ok",
              db |-> set_subject(d, subject_id,
                         [subject.v[1] EXCEPT !.ledger_state.negociating_next = TRUE])]

----------------------------------------------------------------------------
(* Inputs of the facade specifications *)

\* the key pairs create_subject_from_request may generate, and the requester's keys
KeyPairs == {[public_key |-> 11]}
OwnerKeys == [public_key |-> 5]
Timestamps == {3}
GovernanceVersions == {1}

\* a schema laxer than the subject's own: it also accepts document 3
LaxSchema == SubjectSchema \cup {3}

\* an event request signed by the requester over hash((request, timestamp))
EventRequest(request, timestamp, keys) ==
    [request |-> request,
     timestamp |-> timestamp,
     signature |-> Signature(keys.public_key,
                             from_serializable_borsh(
                                 borsh_request_type(request) \o <<timestamp>>),
                             timestamp, keys),
     approvals |-> {}]

Json(doc) == [kind |-> "Json", doc |-> doc]

CreateRequests ==
    {EventRequest([type |-> "Create",
                   data |-> [governance_id |-> DigestIdentifier_default,
                             schema_id |-> 1, namespace |-> 1, payload |-> Json(1)]],
                  t, OwnerKeys) : t \in Timestamps}

StateRequests(subject_id, docs) ==
    {EventRequest([type |-> "State",
                   data |-> [subject_id |-> subject_id, payload |-> Json(doc)]],
                  t, OwnerKeys) : t \in Timestamps, doc \in docs}

JsonPatch(ops) == [kind |-> "JsonPatch", doc |-> ops]

\* the orders in which a HashSet may hand out its elements
Orders(set) ==
    {order \in [1..Cardinality(set) -> set] : {order[i] : i \in DOMAIN order} = set}

\* event requests as they arrive at check_signatures: the request signature names
\* the right or a wrong hash and is made by the signer or by another key, over the
\* right or a wrong digest
WrongDigest(digest) == <<(digest[1] + 1) % 251>>

request_hash(request, timestamp) ==
    from_serializable_borsh(borsh_request_type(request) \o <<timestamp>>)

SignedRequestsOf(request, t) ==
    {[request |-> request, timestamp |-> t,
      signature |-> [content |-> [signer |-> 5, event_content_hash |-> named,
                                  timestamp |-> t],
                     signature |-> sign([public_key |-> by], over)],
      approvals |-> {}] :
        named \in {request_hash(request, t), WrongDigest(request_hash(request, t))},
        by \in {5, 6},
        over \in {request_hash(request, t), WrongDigest(request_hash(request, t))}}

SignedRequests ==
    LET requests == {r.request : r \in CreateRequests}
                    \cup {r.request : r \in StateRequests(DigestIdentifier_default, {2})}
    IN  UNION {SignedRequestsOf(request, t) : request \in requests, t \in Timestamps}

\* approvals of the request hash h or of another hash, signed by the approver over
\* the approval hash, by another key, or over the request hash
Approvals(h) ==
    LET contents == {[signer |-> k, event_request_hash |-> named,
                      approval_type |-> type, expected_sn |-> n] :
                        k \in {21, 22}, named \in {h, WrongDigest(h)},
                        type \in {"Accept", "Reject"}, n \in {1}}
    IN  UNION {{[content |-> c, signature |-> sign([public_key |-> by], over)] :
                   by \in {c.signer, 6},
                   over \in {from_serializable_borsh(borsh_approval_content(c)), h}} :
                 c \in contents}

\* sets of approvals, one approval per signer at most
ApprovalSets(h) ==
    {{}} \cup {{a} : a \in Approvals(h)}
         \cup {{a, b} : a \in {x \in Approvals(h) : x.content.signer = 21},
                        b \in {x \in Approvals(h) : x.content.signer = 22}}

CheckInputs ==
    UNION {{[r EXCEPT !.approvals = set] :
               set \in ApprovalSets(request_hash(r.request, r.timestamp))} :
             r \in SignedRequests}

\* what create_subject_from_request returns for every request and generated key pair
Created ==
    {create_subject_from_request(req, mc, now, gv, SubjectSchema, TRUE) :
        req \in CreateRequests, mc \in KeyPairs, now \in Timestamps,
        gv \in GovernanceVersions}

CreatedSubjects == {c.subject[1] : c \in {x \in Created : x.tag = "Ok"}}
CreatedEvents == {c.event[1] : c \in {x \in Created : x.tag = "Ok"}}

Sids == {s.subject_data[1].subject_id : s \in CreatedSubjects}

\* a created subject as it stands at sequence number n
SubjectAt(subject, n) ==
    [subject EXCEPT !.subject_data = Some([subject.subject_data[1] EXCEPT !.sn = n])]

SubjectInputs == {SubjectAt(s, n) : s \in CreatedSubjects, n \in 0..MaxSn}

\* the state events get_event_from_state_request builds for a subject
StateEvents(subject, docs, prevs, schema) ==
    LET built == {get_event_from_state_request(req, subject, prev, now, gv, schema, TRUE) :
                     req \in StateRequests(subject.subject_data[1].subject_id, docs),
                     prev \in prevs, now \in Timestamps, gv \in GovernanceVersions}
    IN  {b.event[1] : b \in {x \in built : x.tag = "Ok"}}

\* event contents handed to apply_event_sourcing: of created events and of state
\* events with sn 1..MaxSn, with a payload the subject schema accepts (2) or not (3)
ApplyInputs ==
    {e.event_content : e \in CreatedEvents}
    \cup UNION {{e.event_content :
                    e \in StateEvents(s, {2, 3}, {DigestIdentifier_default}, LaxSchema)} :
                  s \in {x \in SubjectInputs : x.subject_data[1].sn < MaxSn}}

\* the signatures set_signatures is called with
Signatures ==
    {Signature(k, DigestIdentifier_default, 3, [public_key |-> k]) : k \in {21, 22}}
SignatureSets == {{}} \cup {{s} : s \in Signatures}

NoRun == [run |-> 0]

----------------------------------------------------------------------------
(* The partitioned-store specification: handles over one shared backend *)

TabA == <<97>>
TabAB == <<97, 98>>

\* segment paths of the handles: two tables, one a proper prefix of the other; two
\* sibling partitions, one a proper prefix of the other; a child of a partition
StorePaths ==
    {<<TabA>>, <<TabAB>>, <<TabA, TabA>>, <<TabA, TabAB>>, <<TabA, TabA, TabA>>}

RECURSIVE handle_of(_)
handle_of(path) ==
    IF Len(path) = 1 THEN new(path[1])
    ELSE partition(handle_of(SubSeq(path, 1, Len(path) - 1)), path[Len(path)])

UserKeys == {<<97>>, <<98>>}
Values == {1, 300}

\* what `last` becomes: the operation, its handle, its arguments and its result where
\* operations are recorded (full), and left as it is where they are not
Record(full, op, h, key, val, res) ==
    IF full THEN [op |-> op, h |-> h, key |-> key, val |-> val, res |-> res]
    ELSE last

Init ==
    /\ db = <<>>
    /\ last = [op |-> "none"]
    /\ shadow = <<>>
    /\ sigrun = NoRun
    /\ applied = {}

Put(path, key, value, full) ==
    LET h == handle_of(path)
    IN  /\ \/ build_key(h, key) \in StoredKeys(db)
           \/ Len(db) < MaxEntries
        /\ db' = put_db(db, h, key, value)
        /\ last' = Record(full, "put", h, key, value, [tag |-> "Ok", v |-> 0])
        /\ shadow' = [e \in DOMAIN shadow \cup {<<path, key>>} |->
                         IF e = <<path, key>> THEN value ELSE shadow[e]]
        /\ UNCHANGED <<sigrun, applied>>

Update(path, key, value, full) ==
    LET h == handle_of(path)
    IN  /\ db' = update_db(db, h, key, value)
        /\ last' = Record(full, "update", h, key, value, update_res(db, h, key))
        /\ shadow' = IF <<path, key>> \in DOMAIN shadow
                     THEN [shadow EXCEPT ![<<path, key>>] = value]
                     ELSE shadow
        /\ UNCHANGED <<sigrun, applied>>

Del(path, key, full) ==
    LET h == handle_of(path)
    IN  /\ db' = del_db(db, h, key)
        /\ last' = Record(full, "del", h, key, 0, del_res(db, h, key))
        /\ shadow' = [e \in DOMAIN shadow \ {<<path, key>>} |-> shadow[e]]
        /\ UNCHANGED <<sigrun, applied>>

\* the Database is dropped and db::open_db opens the same path again: the backend
\* holds what was written (a clean close loses nothing)
Reopen(full) ==
    /\ last' = Record(full, "open_db", <<>>, <<>>, 0, [tag |-> "Ok", v |-> 0])
    /\ UNCHANGED <<db, shadow, sigrun, applied>>

----------------------------------------------------------------------------
(* Operations of the ledger facade *)

SetSubject(subject_id, subject, cap) ==
    /\ db' = set_subject(db, subject_id, subject)
    /\ Len(db') <= cap
    /\ last' = [op |-> "set_subject"]
    /\ sigrun' = NoRun
    /\ UNCHANGED <<shadow, applied>>

\* how: the builder of the event and the arguments it was called with; old: what
\* get_event returned for the slot before the call
SetEvent(subject_id, event, how, cap) ==
    LET at == <<(<<EVENT_TABLE, to_str(subject_id)>>),
                to_string(event.event_content.sn)>>
    IN  /\ db' = set_event(db, subject_id, event)
        /\ Len(db') <= cap
        /\ last' = [op |-> "set_event", sid |-> subject_id,
                    sn |-> event.event_content.sn, val |-> event, how |-> how,
                    old |-> get_event(db, subject_id, event.event_content.sn).v,
                    res |-> "Ok"]
        /\ shadow' = [e \in DOMAIN shadow \cup {at} |->
                         IF e = at THEN event ELSE shadow[e]]
        /\ sigrun' = NoRun
        /\ UNCHANGED applied

\* sigrun follows a run of consecutive set_signatures calls on one slot: how many
\* calls (counted up to two) and the union of the aggregate found before the run
\* with every argument of the run, taken without reading the store again
SetSignatures(subject_id, sn, signatures, cap) ==
    LET other == get_signatures(db, subject_id, sn)
        total == set_signatures_total(db, subject_id, sn, signatures)
        continues == sigrun.run > 0 /\ sigrun.sid = subject_id /\ sigrun.sn = sn
    IN  /\ other.tag = "Ok"
        /\ db' = set_signatures(db, subject_id, sn, total)
        /\ Len(db') <= cap
        /\ last' = [op |-> "set_signatures"]
        /\ sigrun' = IF continues
                     THEN [run |-> 2, sid |-> subject_id, sn |-> sn,
                           expect |-> sigrun.expect \cup signatures]
                     ELSE [run |-> 1, sid |-> subject_id, sn |-> sn,
                           expect |-> other.set \cup signatures]
        /\ UNCHANGED <<shadow, applied>>

\* track: whether the slot of a successful application is entered into `applied`
ApplyEventSourcing(event_content, build, track) ==
    LET r == apply_event_sourcing(db, event_content, build)
    IN  /\ db' = r.db
        /\ last' = [op |-> "apply_event_sourcing", sid |-> event_content.subject_id,
                    sn |-> event_content.sn, res |-> r.res, removed |-> r.removed]
        /\ applied' = IF r.res = "Ok" /\ track
                      THEN applied \cup {<<event_content.subject_id, event_content.sn>>}
                      ELSE applied
        /\ sigrun' = NoRun
        /\ UNCHANGED shadow

SetNegociatingTrue(subject_id) ==
    LET r == set_negociating_true(db, subject_id)
    IN  /\ db' = r.db
        /\ last' = [op |-> "set_negociating_true", sid |-> subject_id, res |-> r.res]
        /\ sigrun' = NoRun
        /\ UNCHANGED <<shadow, applied>>

\* SpecDB: the facade over one ledger, every operation recorded in `last`
NextDB ==
    \/ \E s \in CreatedSubjects : SetSubject(s.subject_data[1].subject_id, s, MaxEntries)
    \/ \E e \in CreatedEvents :
           SetEvent(e.event_content.subject_id, e, [kind |-> "create"], MaxEntries)
    \/ \E sid \in Sids, sn \in 0..MaxSn, signatures \in SignatureSets :
           SetSignatures(sid, sn, signatures, MaxEntries)
    \/ \E ec \in ApplyInputs, build \in Builds : ApplyEventSourcing(ec, build, FALSE)
    \/ \E sid \in Sids : SetNegociatingTrue(sid)

SpecDB == Init /\ [][NextDB]_vars

\* SpecTerminal: signatures are collected and events applied, and the slots of the
\* successful applications are kept in `applied`
NextTerminal ==
    \/ \E s \in CreatedSubjects : SetSubject(s.subject_data[1].subject_id, s, MaxEntries)
    \/ \E sid \in Sids, sn \in 0..MaxSn, signatures \in SignatureSets \ {{}} :
           SetSignatures(sid, sn, signatures, MaxEntries)
    \/ \E ec \in ApplyInputs, build \in Builds : ApplyEventSourcing(ec, build, TRUE)

SpecTerminal == Init /\ [][NextTerminal]_vars

\* the sequence numbers at which an event of the subject is stored
StoredSns(subject_id) ==
    {n \in 0..MaxSn : get_event(db, subject_id, n).v # None}

\* the digests a caller hands over as prev_event_hash: the content hash of the
\* stored event the subject stands at, or the default digest
PrevChoices(subject_id, subject_sn) ==
    {DigestIdentifier_default}
    \cup {event_content_hash(get_event(db, subject_id, n).v[1].event_content) :
             n \in StoredSns(subject_id) \cap {subject_sn}}

\* a state event is built from the stored subject and stored
BuildAndSetEvent(subject_id, subject_sn, doc, prev) ==
    LET subject == get_subject(db, subject_id).v
    IN  /\ subject # None
        /\ subject[1].subject_data[1].sn = subject_sn
        /\ subject_sn < MaxSn
        /\ \E e \in StateEvents(subject[1], {doc}, {prev}, SubjectSchema) :
               SetEvent(subject_id, e,
                        [kind |-> "state", prev |-> prev,
                         subject_sn |-> subject[1].subject_data[1].sn],
                        MaxSn + 2)

\* SpecChain: subjects are created, events are built and stored, stored events applied
NextChain ==
    \/ \E s \in CreatedSubjects :
           SetSubject(s.subject_data[1].subject_id, s, MaxSn + 2)
    \/ \E e \in CreatedEvents :
           SetEvent(e.event_content.subject_id, e, [kind |-> "create"], MaxSn + 2)
    \/ \E sid \in Sids, n \in 0..MaxSn :
           \E doc \in SubjectSchema, prev \in PrevChoices(sid, n) :
               BuildAndSetEvent(sid, n, doc, prev)
    \/ \E sid \in Sids, build \in Builds :
           \E n \in StoredSns(sid) :
               ApplyEventSourcing(get_event(db, sid, n).v[1].event_content, build,
                                  FALSE)

SpecChain == Init /\ [][NextChain]_vars

\* the events stored in SpecWrite: the created events and, for sn 1, state events
\* with two different payloads
WriteEvents ==
    CreatedEvents
    \cup UNION {StateEvents(x, SubjectSchema, {DigestIdentifier_default}, SubjectSchema) :
                   x \in CreatedSubjects}

\* SpecWrite: every writing operation of the facade, with events that share a slot
NextWrite ==
    \/ \E s \in CreatedSubjects : SetSubject(s.subject_data[1].subject_id, s, MaxEntries)
    \/ \E e \in WriteEvents :
           SetEvent(e.event_content.subject_id, e, [kind |-> "any"], MaxEntries)
    \/ \E sid \in Sids, sn \in 0..MaxSn, signatures \in SignatureSets \ {{}} :
           SetSignatures(sid, sn, signatures, MaxEntries)
    \/ \E ec \in ApplyInputs, build \in Builds : ApplyEventSourcing(ec, build, FALSE)
    \/ \E sid \in Sids : SetNegociatingTrue(sid)

SpecWrite == Init /\ [][NextWrite]_vars

\* SpecOrder: the events of a subject are stored one after the other from sn 0 up to
\* a two-digit sequence number (an event may be stored again), next to the subject
OrderSns == 0..10

OrderEvents ==
    CreatedEvents
    \cup UNION {StateEvents(SubjectAt(s, n - 1), {2}, {DigestIdentifier_default},
                            SubjectSchema) :
                   s \in CreatedSubjects, n \in OrderSns \ {0}}

NextOrder ==
    \/ \E s \in CreatedSubjects :
           SetSubject(s.subject_data[1].subject_id, s, Cardinality(OrderSns) + 1)
    \/ \E e \in OrderEvents :
           /\ \/ e.event_content.sn = 0
              \/ get_event(db, e.event_content.subject_id, e.event_content.sn - 1).v # None
           /\ SetEvent(e.event_content.subject_id, e, [kind |-> "any"],
                       Cardinality(OrderSns) + 1)

SpecOrder == Init /\ [][NextOrder]_vars

\* set_signatures(subject_id, u64::MAX, signatures): the slot whose key is
\* u64::MAX.to_string()
SetSignaturesAtMax(subject_id, signatures, cap) ==
    LET signatures_by_subject == partition(signature_db, to_str(subject_id))
        other == get_bytes(db, signatures_by_subject, u64_MAX_string)
        total == IF other.found
                 THEN total_signatures(signatures, deserialize_signatures(other.bytes).v)
                 ELSE signatures
    IN  /\ db' = put_bytes(db, signatures_by_subject, u64_MAX_string,
                           serialize_signatures(total))
        /\ Len(db') <= cap
        /\ last' = [op |-> "set_signatures"]
        /\ sigrun' = NoRun
        /\ UNCHANGED <<shadow, applied>>

\* SpecWrap: subjects are stored, signatures collected at the first slots and at the
\* last slot of the u64 range, and events applied, the ones with sn 0 among them
NextWrap ==
    \/ \E s \in CreatedSubjects : SetSubject(s.subject_data[1].subject_id, s, MaxEntries)
    \/ \E sid \in Sids, sn \in 0..MaxSn, signatures \in SignatureSets \ {{}} :
           SetSignatures(sid, sn, signatures, MaxEntries)
    \/ \E sid \in Sids, signatures \in SignatureSets \ {{}} :
           SetSignaturesAtMax(sid, signatures, MaxEntries)
    \/ \E ec \in ApplyInputs, build \in Builds : ApplyEventSourcing(ec, build, FALSE)

SpecWrap == Init /\ [][NextWrap]_vars

\* SpecApply: subjects are stored, signatures collected and events applied, among
\* them events whose payload the subject's schema rejects
NextApply ==
    \/ \E s \in CreatedSubjects : SetSubject(s.subject_data[1].subject_id, s, MaxEntries)
    \/ \E sid \in Sids, sn \in 0..MaxSn, signatures \in SignatureSets \ {{}} :
           SetSignatures(sid, sn, signatures, MaxEntries)
    \/ \E ec \in ApplyInputs, build \in Builds : ApplyEventSourcing(ec, build, FALSE)

SpecApply == Init /\ [][NextApply]_vars

\* the backend writes of apply_event_sourcing after the delete came first
apply_steps_delete_first == <<"del", "put">>

\* the backend writes of apply_event_sourcing in the order of the code: the subject
\* put (set_subject), then the delete of the signature aggregate
apply_steps == <<"put", "del">>

\* apply_event_sourcing is entered: the subject is read and the event applied to it in
\* memory; a missing subject or a failed apply ends the call before any write
ApplyStart(event_content) ==
    LET subject_id == event_content.subject_id
        subject == get_subject_result(db, subject_id)
        applied_subject == Subject_apply(subject.v[1], event_content)
        ended(res) == [op |-> "apply_event_sourcing", sid |-> subject_id,
                       sn |-> event_content.sn, res |-> res, removed |-> FALSE]
    IN  /\ last.op # "applying"
        /\ last' = IF subject.tag # "Ok" THEN ended("Panic")
                   ELSE IF applied_subject.tag # "Ok" THEN ended(applied_subject.tag)
                   ELSE [op |-> "applying", pc |-> 1, sid |-> subject_id,
                         sn |-> event_content.sn, ec |-> event_content,
                         subject |-> applied_subject.v, db0 |-> db]
        /\ sigrun' = NoRun
        /\ UNCHANGED <<db, shadow, applied>>

\* the next backend write of the call in progress; after the last one the call returns
ApplyStep(build) ==
    LET step == apply_steps[last.pc]
        signatures_by_subject == partition(signature_db, to_str(last.sid))
        k == sn_minus_one(last.sn)
        panics == step = "del" /\ k.overflow /\ build = "debug"
    IN  /\ last.op = "applying"
        /\ db' = IF step = "put" THEN set_subject(db, last.sid, last.subject)
                 ELSE IF panics THEN db
                 ELSE del_db(db, signatures_by_subject, k.key)
        /\ last' = IF panics THEN [last EXCEPT !.op = "crashed"]
                   ELSE IF last.pc < Len(apply_steps) THEN [last EXCEPT !.pc = last.pc + 1]
                   ELSE [op |-> "apply_event_sourcing", sid |-> last.sid, sn |-> last.sn,
                         res |-> IF step = "del"
                                 THEN delete_outcome(
                                          del_signatures_res(db, signatures_by_subject, k.key))
                                 ELSE "Ok",
                         removed |-> get_bytes(last.db0, signatures_by_subject, k.key).found,
                         ec |-> last.ec, db0 |-> last.db0, build |-> build]
        /\ UNCHANGED <<shadow, sigrun, applied>>

\* the process dies in the middle of the call: the backend keeps what was written
Crash ==
    /\ last.op = "applying"
    /\ last' = [last EXCEPT !.op = "crashed"]
    /\ UNCHANGED <<db, shadow, sigrun, applied>>

\* SpecSteps: apply_event_sourcing write by write, calls of one caller one at a time
NextSteps ==
    \/ /\ last.op # "applying"
       /\ \E s \in CreatedSubjects :
              SetSubject(s.subject_data[1].subject_id, s, MaxEntries)
    \/ /\ last.op # "applying"
       /\ \E sid \in Sids, sn \in 0..MaxSn, signatures \in SignatureSets \ {{}} :
              SetSignatures(sid, sn, signatures, MaxEntries)
    \/ \E ec \in ApplyInputs : ApplyStart(ec)
    \/ \E build \in Builds : ApplyStep(build)
    \/ Crash

SpecSteps == Init /\ [][NextSteps]_vars

\* the payloads of the requests handed to the builders and to check_against_schema:
\* strings that are no JSON (0), documents the subject schema accepts (1, 2) or not
\* (3), patches that apply (1..3) or not (4)
Payloads == {Json(doc) : doc \in 0..3} \cup {JsonPatch(ops) : ops \in 0..4}

\* a subject id no created subject has
OtherSid == WrongDigest(DigestIdentifier_default)

BuildRequests ==
    {EventRequest([type |-> "Create",
                   data |-> [governance_id |-> DigestIdentifier_default,
                             schema_id |-> 1, namespace |-> 1, payload |-> payload]],
                  t, OwnerKeys) : t \in Timestamps, payload \in Payloads}
    \cup {EventRequest([type |-> "State",
                        data |-> [subject_id |-> sid, payload |-> payload]],
                       t, OwnerKeys) :
              t \in Timestamps, sid \in Sids \cup {OtherSid}, payload \in Payloads}

\* the subjects handed over: owned (keys are Some) or not, with or without data
BuildSubjects ==
    UNION {{s, [s EXCEPT !.keys = None], [s EXCEPT !.subject_data = None],
            [s EXCEPT !.keys = None, !.subject_data = None]} : s \in SubjectInputs}

\* schemas: the subject's own, a laxer one, and a value that is no schema
Schemas ==
    {[compiles |-> TRUE, accepts |-> SubjectSchema],
     [compiles |-> TRUE, accepts |-> LaxSchema],
     [compiles |-> FALSE, accepts |-> {}]}

BuildInputs ==
    {[op |-> "request", req |-> req, subject |-> subject, prev |-> prev,
      schema |-> schema] :
        req \in BuildRequests, subject \in BuildSubjects,
        prev \in {DigestIdentifier_default, OtherSid}, schema \in Schemas}

\* SpecBuild: a request arrives with a subject, a previous hash and a schema, and one
\* of the builders or check_against_schema is called on it.  The builders are called
\* with a schema that compiles and a Json payload (what Subject::new and
\* get_future_subject_content_hash do otherwise is in models/state.rs).
InitBuild ==
    /\ db = <<>>
    /\ last \in BuildInputs
    /\ shadow = <<>>
    /\ sigrun = NoRun
    /\ applied = {}

CreateSubjectFromRequest(mc, now, governance_version, approved) ==
    /\ last.op = "request"
    /\ last.schema.compiles
    /\ request_payload(last.req).kind = "Json"
    /\ last' = [op |-> "create_subject_from_request", req |-> last.req, mc |-> mc,
                schema |-> last.schema,
                governance_version |-> governance_version, approved |-> approved,
                res |-> create_subject_from_request(last.req, mc, now, governance_version,
                                                    last.schema.accepts, approved)]
    /\ UNCHANGED <<db, shadow, sigrun, applied>>

\* the subject is borrowed (&Subject): subject_after is the subject as the caller
\* holds it after the call
GetEventFromStateRequest(now, governance_version, approved) ==
    /\ last.op = "request"
    /\ last.schema.compiles
    /\ request_payload(last.req).kind = "Json"
    /\ last' = [op |-> "get_event_from_state_request", req |-> last.req,
                subject |-> last.subject, prev |-> last.prev,
                governance_version |-> governance_version, approved |-> approved,
                subject_after |-> last.subject,
                res |-> get_event_from_state_request(last.req, last.subject, last.prev,
                                                     now, governance_version,
                                                     last.schema.accepts, approved)]
    /\ UNCHANGED <<db, shadow, sigrun, applied>>

CheckAgainstSchema ==
    /\ last.op = "request"
    /\ last' = [op |-> "check_against_schema", req |-> last.req,
                subject |-> last.subject, schema |-> last.schema,
                res |-> check_against_schema(last.req, last.schema, last.subject)]
    /\ UNCHANGED <<db, shadow, sigrun, applied>>

NextBuild ==
    \/ \E mc \in KeyPairs, now \in Timestamps, gv \in GovernanceVersions,
          approved \in BOOLEAN : CreateSubjectFromRequest(mc, now, gv, approved)
    \/ \E now \in Timestamps, gv \in GovernanceVersions, approved \in BOOLEAN :
           GetEventFromStateRequest(now, gv, approved)
    \/ CheckAgainstSchema

SpecBuild == InitBuild /\ [][NextBuild]_vars

\* Two facade handles over one backend, each in a call of its own.  The backend
\* serializes its operations (every get, put and delete is one step); between the
\* backend operations of one call the other handle may run.
Handles == {1, 2}

Running(op) == last.op = op /\ \E i \in Handles : last.pc[i] # "done"

\* both handles enter set_signatures for the same slot, each with its own signatures
SignaturesStart(subject_id, sn, signatures) ==
    /\ ~Running("set_signatures on two handles")
    /\ last' = [op |-> "set_signatures on two handles", sid |-> subject_id, sn |-> sn,
                signatures |-> signatures,
                pc |-> [i \in Handles |-> "get"],
                other |-> [i \in Handles |-> [tag |-> "Ok", some |-> FALSE, set |-> {}]],
                before |-> get_signatures(db, subject_id, sn).set]
    /\ sigrun' = NoRun
    /\ UNCHANGED <<db, shadow, applied>>

\* signatures_by_subject.get(&sn) on handle i
SignaturesGet(i) ==
    /\ Running("set_signatures on two handles")
    /\ last.pc[i] = "get"
    /\ last' = [last EXCEPT !.other[i] = get_signatures(db, last.sid, last.sn),
                            !.pc[i] = IF get_signatures(db, last.sid, last.sn).tag = "Ok"
                                      THEN "put" ELSE "done"]
    /\ UNCHANGED <<db, shadow, sigrun, applied>>

\* signatures_by_subject.put(&sn, total_signatures) on handle i, with the union
\* computed from what its get returned
SignaturesPut(i, cap) ==
    LET other == last.other[i]
        total == IF other.some THEN total_signatures(last.signatures[i], other.set)
                 ELSE last.signatures[i]
    IN  /\ Running("set_signatures on two handles")
        /\ last.pc[i] = "put"
        /\ db' = set_signatures(db, last.sid, last.sn, total)
        /\ Len(db') <= cap
        /\ last' = [last EXCEPT !.pc[i] = "done"]
        /\ UNCHANGED <<shadow, sigrun, applied>>

\* SpecSignatures: signatures are collected by calls that do not overlap and by two
\* calls on two handles that do
NextSignatures ==
    \/ /\ ~Running("set_signatures on two handles")
       /\ \E sid \in Sids, sn \in 0..MaxSn, signatures \in SignatureSets \ {{}} :
              SetSignatures(sid, sn, signatures, MaxEntries)
    \/ \E sid \in Sids, sn \in 0..MaxSn :
           \E signatures \in [Handles -> SignatureSets \ {{}}] :
               SignaturesStart(sid, sn, signatures)
    \/ \E i \in Handles : SignaturesGet(i)
    \/ \E i \in Handles : SignaturesPut(i, MaxEntries)

SpecSignatures == Init /\ [][NextSignatures]_vars

\* handle 1 enters set_negociating_true while handle 2 enters apply_event_sourcing for
\* the same subject; subject[i] is the subject handle i holds in memory
FlagStart(event_content) ==
    /\ ~Running("set_negociating_true and apply_event_sourcing")
    /\ last' = [op |-> "set_negociating_true and apply_event_sourcing",
                sid |-> event_content.subject_id, ec |-> event_content,
                pc |-> [i \in Handles |-> "get"],
                subject |-> [i \in Handles |-> None],
                res |-> [i \in Handles |-> "running"]]
    /\ sigrun' = NoRun
    /\ UNCHANGED <<db, shadow, applied>>

\* set_negociating_true: _get_subject, and the flag set on the copy in memory
FlagGet ==
    LET subject == get_subject_result(db, last.sid)
    IN  /\ Running("set_negociating_true and apply_event_sourcing")
        /\ last.pc[1] = "get"
        /\ last' = IF subject.tag = "EntryNotFoundError"
                   THEN [last EXCEPT !.pc[1] = "done", !.res[1] = "SubjectNotFound"]
                   ELSE IF subject.tag # "Ok"
                   THEN [last EXCEPT !.pc[1] = "done", !.res[1] = "Panic"]
                   ELSE [last EXCEPT
                            !.pc[1] = "put",
                            !.subject[1] =
                                Some([subject.v[1] EXCEPT
                                         !.ledger_state.negociating_next = TRUE])]
        /\ UNCHANGED <<db, shadow, sigrun, applied>>

\* set_negociating_true: set_subject with the copy
FlagPut ==
    /\ Running("set_negociating_true and apply_event_sourcing")
    /\ last.pc[1] = "put"
    /\ db' = set_subject(db, last.sid, last.subject[1][1])
    /\ last' = [last EXCEPT !.pc[1] = "done", !.res[1] = "Ok"]
    /\ UNCHANGED <<shadow, sigrun, applied>>

\* apply_event_sourcing: _get_subject and Subject::apply on the copy in memory
ApplyGet ==
    LET subject == get_subject_result(db, last.sid)
        applied_subject == Subject_apply(subject.v[1], last.ec)
    IN  /\ Running("set_negociating_true and apply_event_sourcing")
        /\ last.pc[2] = "get"
        /\ last' = IF subject.tag # "Ok"
                   THEN [last EXCEPT !.pc[2] = "done", !.res[2] = "Panic"]
                   ELSE IF applied_subject.tag # "Ok"
                   THEN [last EXCEPT !.pc[2] = "done", !.res[2] = applied_subject.tag]
                   ELSE [last EXCEPT !.pc[2] = "put",
                                     !.subject[2] = Some(applied_subject.v)]
        /\ UNCHANGED <<db, shadow, sigrun, applied>>

\* apply_event_sourcing: set_subject with the applied copy
ApplyPut ==
    /\ Running("set_negociating_true and apply_event_sourcing")
    /\ last.pc[2] = "put"
    /\ db' = set_subject(db, last.sid, last.subject[2][1])
    /\ last' = [last EXCEPT !.pc[2] = "del"]
    /\ UNCHANGED <<shadow, sigrun, applied>>

\* apply_event_sourcing: the delete of the aggregate at sn - 1, and the return
ApplyDel(build) ==
    LET signatures_by_subject == partition(signature_db, to_str(last.sid))
        k == sn_minus_one(last.ec.sn)
        panics == k.overflow /\ build = "debug"
    IN  /\ Running("set_negociating_true and apply_event_sourcing")
        /\ last.pc[2] = "del"
        /\ db' = IF panics THEN db ELSE del_db(db, signatures_by_subject, k.key)
        /\ last' = [last EXCEPT
                       !.pc[2] = "done",
                       !.res[2] = IF panics THEN "Panic"
                                  ELSE delete_outcome(del_signatures_res(
                                           db, signatures_by_subject, k.key))]
        /\ UNCHANGED <<shadow, sigrun, applied>>

\* SpecFlag: subjects are stored and signatures collected by calls that do not
\* overlap; set_negociating_true and apply_event_sourcing run on two handles
NextFlag ==
    \/ /\ ~Running("set_negociating_true and apply_event_sourcing")
       /\ \E s \in CreatedSubjects :
              SetSubject(s.subject_data[1].subject_id, s, MaxEntries)
    \/ /\ ~Running("set_negociating_true and apply_event_sourcing")
       /\ \E sid \in Sids, sn \in 0..MaxSn, signatures \in SignatureSets \ {{}} :
              SetSignatures(sid, sn, signatures, MaxEntries)
    \/ \E ec \in ApplyInputs : FlagStart(ec)
    \/ FlagGet
    \/ FlagPut
    \/ ApplyGet
    \/ ApplyPut
    \/ \E build \in Builds : ApplyDel(build)

SpecFlag == Init /\ [][NextFlag]_vars

\* SpecCheck: an event request arrives and check_signatures is called on it
InitCheck ==
    /\ db = <<>>
    /\ last \in {[op |-> "request", req |-> r] : r \in CheckInputs}
    /\ shadow = <<>>
    /\ sigrun = NoRun
    /\ applied = {}

CheckSignatures(order) ==
    /\ last.op = "request"
    /\ last' = [op |-> "check_signatures", req |-> last.req,
                res |-> check_signatures(last.req, order)]
    /\ UNCHANGED <<db, shadow, sigrun, applied>>

NextCheck == \E order \in Orders(last.req.approvals) : CheckSignatures(order)

SpecCheck == InitCheck /\ [][NextCheck]_vars

\* Spec: many handles over one backend, operations not recorded
Next ==
    \/ \E path \in StorePaths, key \in UserKeys, value \in Values :
           Put(path, key, value, FALSE)
    \/ \E path \in StorePaths, key \in UserKeys, value \in Values :
           Update(path, key, value, FALSE)
    \/ \E path \in StorePaths, key \in UserKeys : Del(path, key, FALSE)

Spec == Init /\ [][Next]_vars

\* SpecOps: a table and one partition of it and the event table of the facade, every
\* operation recorded in `last`
OpPaths == {<<TabA>>, <<TabA, TabA>>}

\* the events stored in SpecOps: the created events and state events with sn 1
OpsEvents ==
    CreatedEvents
    \cup UNION {StateEvents(x, {2}, {DigestIdentifier_default}, SubjectSchema) :
                   x \in CreatedSubjects}

NextOps ==
    \/ \E path \in OpPaths, key \in UserKeys, value \in Values :
           Put(path, key, value, TRUE)
    \/ \E path \in OpPaths, key \in UserKeys, value \in Values :
           Update(path, key, value, TRUE)
    \/ \E path \in OpPaths, key \in UserKeys : Del(path, key, TRUE)
    \/ \E e \in OpsEvents :
           SetEvent(e.event_content.subject_id, e, [kind |-> "any"], MaxEntries)
    \/ Reopen(TRUE)

SpecOps == Init /\ [][NextOps]_vars

\* SpecSeparator: callers that hand over the separator, in a user key or in the
\* segment of a partition
SeparatorKey == <<97, separator, 97>>
SeparatorPaths == {<<TabA>>, <<TabA, TabA>>, <<TabA, SeparatorKey>>}
SeparatorKeys == {<<97>>, SeparatorKey}

NextSeparator ==
    \/ \E path \in SeparatorPaths, key \in SeparatorKeys : Put(path, key, 1, TRUE)
    \/ \E path \in SeparatorPaths, key \in SeparatorKeys : Update(path, key, 300, TRUE)
    \/ \E path \in SeparatorPaths, key \in SeparatorKeys : Del(path, key, TRUE)

SpecSeparator == Init /\ [][NextSeparator]_vars

----------------------------------------------------------------------------
(* Properties of the partitioned store (specification Spec) *)

\* path ∥ S of the specification: every segment followed by the separator
RECURSIVE PhysPrefix(_)
PhysPrefix(path) ==
    IF Len(path) = 0 THEN <<>>
    ELSE path[1] \o <<separator>> \o PhysPrefix(SubSeq(path, 2, Len(path)))

PathPrefix(p, q) == Len(p) <= Len(q) /\ SubSeq(q, 1, Len(p)) = p

Cursors == {FromBeginning, FromEnding} \cup {FromKey(k) : k \in UserKeys \cup {<<>>}}
Quantities == {-4, -1, 0, 1, 4}

RECURSIVE SortAsc(_)
SortAsc(S) ==
    IF S = {} THEN <<>>
    ELSE LET m == CHOOSE k \in S : \A o \in S : KeyLeq(k, o)
         IN  <<m>> \o SortAsc(S \ {m})

Range(seq) == {seq[i] : i \in 1..Len(seq)}

\* the handles through which the stored physical key pk was written
WrittenThrough(pk) ==
    {e[1] : e \in {x \in DOMAIN shadow : build_key(handle_of(x[1]), x[2]) = pk}}

\* the physical keys a handle's reads return: by get, get_all and get_range
ReadKeys(path) ==
    LET h == handle_of(path)
    IN  {build_key(h, k) : k \in {x \in UserKeys : get(db, h, x).tag = "Ok"}}
        \cup Range(get_all_keys(db, h))
        \cup UNION {Range(get_range_keys(db, h, c, q).keys) :
                        c \in Cursors, q \in Quantities}

\* C1: partition isolation.  With segments and user keys free of the separator, every
\* entry a handle reads (get, get_all, get_range) was written through that handle or
\* through a partition below it, never through a sibling, another table or its
\* parent; get_count counts no more than those entries.
C1_PartitionIsolation ==
    \A reader \in StorePaths :
        /\ \A pk \in ReadKeys(reader) :
               \A writer \in WrittenThrough(pk) : PathPrefix(reader, writer)
        /\ get_count(db, handle_of(reader)) <=
               Cardinality({e \in DOMAIN shadow : PathPrefix(reader, e[1])})

\* C1 witness: the sibling partitions a/a and a/ab and the child a/a/a all hold
\* entries and the reads of a/ab return some
C1_Witness ==
    /\ \E k \in UserKeys : <<(<<TabA, TabA>>), k>> \in DOMAIN shadow
    /\ \E k \in UserKeys : <<(<<TabA, TabAB>>), k>> \in DOMAIN shadow
    /\ \E k \in UserKeys : <<(<<TabA, TabA, TabA>>), k>> \in DOMAIN shadow
    /\ get_all_keys(db, handle_of(<<TabA, TabAB>>)) # <<>>
    /\ get_count(db, handle_of(<<TabA, TabAB>>)) > 0

\* C2: get_all on a partition returns exactly the stored entries whose physical key
\* starts with path ∥ S, in ascending key order, whatever else the backend holds.
C2_GetAllExact ==
    \A path \in StorePaths :
        get_all_keys(db, handle_of(path)) =
            SortAsc({k \in StoredKeys(db) : starts_with(k, PhysPrefix(path))})

\* C3: every entry get_range returns, for every cursor and quantity, has a physical
\* key that starts with path ∥ S.
C3_RangeInsidePartition ==
    \A path \in StorePaths, c \in Cursors, q \in Quantities :
        LET r == get_range_keys(db, handle_of(path), c, q)
        IN  \A i \in 1..Len(r.keys) : starts_with(r.keys[i], PhysPrefix(path))

\* C3 witness: a forward range that ends at the partition boundary, before the
\* quantity is used up, with a key of another partition stored right after it
C3_Witness ==
    \E path \in StorePaths, c \in Cursors, q \in Quantities :
        LET r == get_range_keys(db, handle_of(path), c, q)
        IN  /\ q > 0
            /\ r.tag = "Ok"
            /\ Len(r.keys) >= 1
            /\ Len(r.keys) < q
            /\ \E k \in StoredKeys(db) :
                   /\ KeyLess(r.keys[Len(r.keys)], k)
                   /\ ~starts_with(k, PhysPrefix(path))

\* the entries written through the handles of the store, and the events written
\* through the facade
StoreEntries == {e \in DOMAIN shadow : e[1][1] # EVENT_TABLE}
EventEntries == {e \in DOMAIN shadow : e[1][1] = EVENT_TABLE}

\* C4: round trip (specification SpecOps).  After put(k, v) nothing but an update or
\* del of k changes what get(k) returns: right after the put, through any other
\* operation on other keys and handles, and after the backend is reopened, get(k)
\* through a handle of the same partition is Ok(v); and after set_event(sid, e),
\* get_event(sid, e.sn) is Some(e).
C4_RoundTrip ==
    /\ last.op = "put" => get(db, last.h, last.key) = [tag |-> "Ok", v |-> last.val]
    /\ last.op = "set_event" =>
           get_event(db, last.sid, last.sn) = [tag |-> "Ok", v |-> Some(last.val)]
    /\ \A e \in StoreEntries :
           get(db, handle_of(e[1]), e[2]) = [tag |-> "Ok", v |-> shadow[e]]
    /\ \A e \in EventEntries :
           deserialize_event(get_bytes(db, handle_of(e[1]), e[2]).bytes) =
               [tag |-> "Ok", v |-> Some(shadow[e])]

\* C4 witness: the backend was just reopened, a written two-byte value is read back
\* and a stored event is read back
C4_Witness ==
    /\ last.op = "open_db"
    /\ \E e \in StoreEntries :
           /\ shadow[e] = 300
           /\ get(db, handle_of(e[1]), e[2]).v = 300
    /\ \E sid \in Sids : get_event(db, sid, 1).v # None

----------------------------------------------------------------------------
(* What get_range returns (specification Spec) *)

\* the physical keys of the partition, ascending and descending
Ascending(path) == SortAsc({k \in StoredKeys(db) : starts_with(k, PhysPrefix(path))})
Reverse(seq) == [i \in 1..Len(seq) |-> seq[Len(seq) + 1 - i]]
Descending(path) == Reverse(Ascending(path))
Take(seq, n) == SubSeq(seq, 1, IF n < Len(seq) THEN n ELSE Len(seq))

\* the part of seq from its element k on
From(seq, k) == SubSeq(seq, CHOOSE i \in 1..Len(seq) : seq[i] = k, Len(seq))

Returns(path, cursor, q, keys) ==
    get_range_keys(db, handle_of(path), cursor, q) = [tag |-> "Ok", keys |-> keys]

\* C17: get_range(FromEnding, q) with q < 0 returns the min(|q|, n) entries of the
\* partition with the largest keys, in descending key order, for every content of the
\* shared backend, whether or not a key of another table sorts after the partition.
C17_FromEndingReverse ==
    \A path \in StorePaths, q \in {x \in Quantities : x < 0} :
        Returns(path, FromEnding, q, Take(Descending(path), abs(q)))

\* C18: get_range(FromEnding, q) with q > 0 returns exactly one entry, the one with
\* the largest key of the partition, when the partition is not empty, and the empty
\* list when it is, for every content of the rest of the backend.
C18_FromEndingForward ==
    \A path \in StorePaths, q \in {x \in Quantities : x > 0} :
        Returns(path, FromEnding, q, Take(Descending(path), 1))

\* C19: for a key k stored in the partition, get_range(FromKey(k), q) with q > 0
\* returns k and the next larger keys of the partition in ascending order, at most q
\* entries, ending at the partition end; with q < 0 it returns k and the next smaller
\* keys in descending order, at most |q| entries, ending at the partition start.
C19_FromKey ==
    \A path \in StorePaths, k \in UserKeys :
        LET pk == build_key(handle_of(path), k)
        IN  pk \in StoredKeys(db) =>
                \A q \in Quantities :
                    /\ q > 0 => Returns(path, FromKey(k), q,
                                        Take(From(Ascending(path), pk), q))
                    /\ q < 0 => Returns(path, FromKey(k), q,
                                        Take(From(Descending(path), pk), abs(q)))

\* C19 witness: a partition next to a stored key of another partition holds two
\* entries, and the ranges from its keys return both, forward and backward
C19_Witness ==
    \E path \in StorePaths :
        /\ Len(Ascending(path)) = 2
        /\ \E k \in StoredKeys(db) : ~starts_with(k, PhysPrefix(path))
        /\ \E k \in UserKeys :
               Len(get_range_keys(db, handle_of(path), FromKey(k), 4).keys) = 2
        /\ \E k \in UserKeys :
               Len(get_range_keys(db, handle_of(path), FromKey(k), -4).keys) = 2

\* C20: get_range(FromBeginning, q) with q > 0 returns the min(q, n) entries of the
\* partition with the smallest keys in ascending order; with q < 0 it returns exactly
\* one entry, the one with the smallest key (the empty list when the partition is
\* empty), whatever |q| is.
C20_FromBeginning ==
    \A path \in StorePaths, q \in Quantities :
        /\ q > 0 => Returns(path, FromBeginning, q, Take(Ascending(path), q))
        /\ q < 0 => Returns(path, FromBeginning, q, Take(Ascending(path), 1))

\* C20 witness: a partition of three entries, of which FromBeginning returns the
\* smallest for quantity 1 and for quantity -4, and all for quantity 4
C20_Witness ==
    \E path \in StorePaths :
        /\ Len(Ascending(path)) = 3
        /\ Len(get_range_keys(db, handle_of(path), FromBeginning, 1).keys) = 1
        /\ get_range_keys(db, handle_of(path), FromBeginning, -4).keys =
               <<Ascending(path)[1]>>
        /\ Len(get_range_keys(db, handle_of(path), FromBeginning, 4).keys) = 3

\* C21: for every cursor and every content of the backend get_range(cursor, q)
\* completes normally and returns at most |q| entries, the empty list for q = 0, also
\* for FromEnding on an empty partition or on one with no key stored before it.
C21_RangeBounded ==
    \A path \in StorePaths, c \in Cursors, q \in Quantities :
        LET r == get_range(db, handle_of(path), c, q)
        IN  /\ r.tag = "Ok"
            /\ Len(r.items) <= abs(q)

\* C22: get_count() on a partition equals the number of entries get_all() returns on
\* the same partition.
C22_CountIsGetAll ==
    \A path \in StorePaths :
        LET all == get_all(db, handle_of(path))
        IN  all.tag = "Ok" /\ get_count(db, handle_of(path)) = Len(all.items)

\* the physical key pk without its first n code points
drop_prefix(pk, n) == SubSeq(pk, n + 1, Len(pk))

\* C23: every key get_all and get_range return is the stored physical key with only
\* its leading partition prefix path ∥ S removed, the rest of the key unchanged, also
\* for entries of nested sub-partitions seen from the parent and for a sub-partition
\* whose segment equals the parent's own path.
C23_OnlyLeadingPrefixRemoved ==
    \A path \in StorePaths :
        LET h == handle_of(path)
            n == Len(PhysPrefix(path))
            stripped(ks) ==
                LET items == entries_of(db, h, ks).items
                IN  /\ Len(items) = Len(ks)
                    /\ \A i \in 1..Len(ks) : items[i].key = drop_prefix(ks[i], n)
        IN  /\ stripped(get_all_keys(db, h))
            /\ \A c \in Cursors, q \in Quantities :
                   stripped(get_range_keys(db, h, c, q).keys)

Under(path) == {e \in DOMAIN shadow : PathPrefix(path, e[1])}

\* the key under which the partition at path is to return the entry e of Under(path)
relative_key(path, e) ==
    drop_prefix(build_key(handle_of(e[1]), e[2]), Len(PhysPrefix(path)))

\* what the claim C26 states of the partition at path
SeesSubPartitions(path) ==
    LET all == get_all(db, handle_of(path))
    IN  /\ all.tag = "Ok"
        /\ get_count(db, handle_of(path)) = Cardinality(Under(path))
        /\ Len(all.items) = Cardinality(Under(path))
        /\ \A e \in Under(path) :
               \E i \in 1..Len(all.items) :
                   all.items[i] = [key |-> relative_key(path, e), value |-> shadow[e]]
        /\ \A i, j \in 1..Len(all.items) :
               i < j => KeyLess(get_all_keys(db, handle_of(path))[i],
                                get_all_keys(db, handle_of(path))[j])

\* C26: seen from a parent partition p, every entry put under key k in
\* p.partition(sub), and in deeper sub-partitions, is returned by p.get_all() and
\* counted by p.get_count() under the key sub ∥ S ∥ k, interleaved with p's own entries
\* in ascending physical-key order.
C26_ParentSeesSubPartitions ==
    \A path \in StorePaths : SeesSubPartitions(path)

\* C36: get_range(FromKey(k), q) with q < 0 returns only entries whose key is <= k, in
\* descending order, for every k, stored in the partition or not; with q > 0 only
\* entries whose key is >= k, in ascending order.
C36_FromKeyAnyKey ==
    \A path \in StorePaths, k \in UserKeys, q \in Quantities :
        LET pk == build_key(handle_of(path), k)
            r == get_range_keys(db, handle_of(path), FromKey(k), q)
        IN  /\ r.tag = "Ok"
            /\ q < 0 => /\ \A i \in 1..Len(r.keys) : KeyLeq(r.keys[i], pk)
                        /\ \A i \in 1..Len(r.keys) - 1 : KeyLess(r.keys[i + 1], r.keys[i])
            /\ q > 0 => /\ \A i \in 1..Len(r.keys) : KeyLeq(pk, r.keys[i])
                        /\ \A i \in 1..Len(r.keys) - 1 : KeyLess(r.keys[i], r.keys[i + 1])

\* the forward half of C36 alone
C36_ForwardFromAnyKey ==
    \A path \in StorePaths, k \in UserKeys, q \in {x \in Quantities : x > 0} :
        LET pk == build_key(handle_of(path), k)
            r == get_range_keys(db, handle_of(path), FromKey(k), q)
        IN  /\ r.tag = "Ok"
            /\ \A i \in 1..Len(r.keys) : KeyLeq(pk, r.keys[i])
            /\ \A i \in 1..Len(r.keys) - 1 : KeyLess(r.keys[i], r.keys[i + 1])

----------------------------------------------------------------------------
(* Properties of the ledger facade *)

Slots == Sids \X (0..MaxSn)

stored_sn(d, subject_id) == get_subject(d, subject_id).v[1].subject_data[1].sn

\* the step is a successful apply_event_sourcing; last' holds its subject and sn
AppliedOk == last'.op = "apply_event_sourcing" /\ last'.res = "Ok"

\* C5: signature union (specification SpecDB).  Right after set_signatures(sid, sn, S)
\* get_signatures(sid, sn) is Some(E \cup S), E the aggregate stored before (empty if
\* none); after consecutive calls with S1 then S2 it is Some(E \cup S1 \cup S2); no
\* signature stored before is lost.
C5_SignatureUnion ==
    sigrun.run > 0 =>
        get_signatures(db, sigrun.sid, sigrun.sn) =
            [tag |-> "Ok", some |-> TRUE, set |-> sigrun.expect]

\* C5 witness: two consecutive calls on one slot have built an aggregate of two
\* signatures
C5_Witness ==
    /\ sigrun.run = 2
    /\ Cardinality(sigrun.expect) = 2
    /\ get_signatures(db, sigrun.sid, sigrun.sn).set = sigrun.expect

\* C6: whenever an aggregate is stored at (sid, sn) and the subject sid is stored,
\* sn is greater than the subject's sn.
C6_AggregateAboveSubject ==
    \A slot \in Slots :
        (/\ get_signatures(db, slot[1], slot[2]).some
         /\ get_subject(db, slot[1]).v # None)
            => slot[2] > stored_sn(db, slot[1])

C9_ConsolidatedTerminal ==
    [][\A slot \in applied :
           ~get_signatures(db, slot[1], slot[2]).some
               => ~get_signatures(db', slot[1], slot[2]).some]_vars

----------------------------------------------------------------------------
(* Properties of the event chain (specification SpecChain) *)

stored_event(subject_id, sn) == get_event(db, subject_id, sn).v[1]

----------------------------------------------------------------------------
(* Lifecycle of subjects and events *)

\* C11 (specification SpecDB): apply_event_sourcing(ec) returns Ok only if an event
\* with sn = ec.sn is stored for ec.subject_id, so that the stored subject's sn is
\* always the sn of a stored event of that subject.
C11_ApplyRequiresEvent ==
    [][AppliedOk =>
          /\ get_event(db, last'.sid, last'.sn).v # None
          /\ stored_sn(db', last'.sid) \in
                 {n \in 0..MaxSn : get_event(db', last'.sid, n).v # None}]_vars

\* the entry of `shadow` for the event slot (subject_id, sn)
event_slot(subject_id, sn) == <<(<<EVENT_TABLE, to_str(subject_id)>>), to_string(sn)>>

\* C12 as stated (specification SpecChain): for each subject the sequence numbers at
\* which events are stored are {0, ..., n} for some n, and each event is stored under
\* the key equal to its own event_content.sn.
C12_GaplessFromZero ==
    \A sid \in Sids :
        /\ \A n \in StoredSns(sid) :
               /\ stored_event(sid, n).event_content.sn = n
               /\ \A m \in 0..n : m \in StoredSns(sid)

\* C12 amended: each event is stored under the key equal to its own event_content.sn
\* and the sequence numbers at which events are stored are exactly those of the
\* events handed to set_event, each slot holding the event last stored there; they
\* need neither start at 0 nor be free of gaps.
C12_StoredUnderOwnSn ==
    \A sid \in Sids : \A n \in 0..MaxSn :
        /\ n \in StoredSns(sid) <=> event_slot(sid, n) \in DOMAIN shadow
        /\ n \in StoredSns(sid) =>
               /\ stored_event(sid, n).event_content.sn = n
               /\ stored_event(sid, n) = shadow[event_slot(sid, n)]

\* C12 witness: the events with sn 1 and 2 of a subject are stored, each under its own
\* sn, and no event with sn 0 is
C12_Witness ==
    \E sid \in Sids :
        /\ StoredSns(sid) = {1, 2}
        /\ \A n \in {1, 2} : stored_event(sid, n).event_content.sn = n
        /\ last.op = "set_event" /\ last.sn = 2

\* C13 as stated (specification SpecWrite): once an event is stored at (sid, sn), no
\* facade call changes or removes what get_event(sid, sn) returns.
C13_WriteOnce ==
    [][\A sid \in Sids : \A n \in 0..MaxSn :
           get_event(db, sid, n).v # None =>
               get_event(db', sid, n) = get_event(db, sid, n)]_vars

\* C13 amended: a stored event is never removed, and the only facade call that
\* changes what get_event(sid, sn) returns is a set_event(sid, e') with e'.sn = sn,
\* after which get_event(sid, sn) is Some(e'): the last event stored at a slot wins.
C13_LastWriteWins ==
    [][\A sid \in Sids : \A n \in 0..MaxSn :
           get_event(db, sid, n).v # None =>
               IF last'.op = "set_event" /\ last'.sid = sid /\ last'.sn = n
               THEN get_event(db', sid, n) = [tag |-> "Ok", v |-> Some(last'.val)]
               ELSE get_event(db', sid, n) = get_event(db, sid, n)]_vars

\* C13 witness: a set_event has just replaced a different event stored at its slot
C13_Witness ==
    /\ last.op = "set_event"
    /\ last.old # None
    /\ last.old # Some(last.val)
    /\ get_event(db, last.sid, last.sn).v = Some(last.val)

C16_MissingSubjectIsTypedError ==
    [][(/\ last'.op = "apply_event_sourcing"
        /\ get_subject_result(db, last'.sid).tag = "EntryNotFoundError")
           => (last'.res = "SubjectNotFound" /\ db' = db)]_vars

\* the events at the physical keys get_range yields on the event partition of sid
events_at(subject_id, cursor, quantity) ==
    LET r == get_range_keys(db, partition(event_db, to_str(subject_id)), cursor, quantity)
    IN  [tag |-> r.tag,
         events |-> [i \in 1..Len(r.keys) |->
                        deserialize_event(backend_get(db, r.keys[i]).bytes).v[1]]]

Froms == {None} \cup {Some(to_string(n)) : n \in 0..MaxSn}

\* C27 (specification SpecChain): get_events_by_range(sid, from, q) is get_range on the
\* event partition of sid with the cursor and quantity normalized: from = None and
\* q >= 0 gives get_range(FromBeginning, |q|); from = None and q < 0 gives
\* get_range(FromEnding, -|q|); from = Some(k) gives get_range(FromKey(k), q); the
\* events come in the iteration order of that get_range.
C27_RangeNormalized ==
    \A sid \in Sids, from \in Froms, q \in Quantities :
        get_events_by_range(db, sid, from, q) =
            IF from = None /\ q >= 0 THEN events_at(sid, FromBeginning, abs(q))
            ELSE IF from = None THEN events_at(sid, FromEnding, 0 - abs(q))
            ELSE events_at(sid, FromKey(from[1]), q)

\* C27 witness: the events with sn 0, 1 and 2 of a subject are stored; from = None
\* returns them from sn 0 up for quantity 4 and from sn 2 down for quantity -4, and
\* from = Some("1") returns the events with sn 1 and 0 for quantity -4
C27_Witness ==
    \E sid \in Sids :
        /\ StoredSns(sid) = {0, 1, 2}
        /\ get_events_by_range(db, sid, None, 4) =
               [tag |-> "Ok", events |-> [i \in 1..3 |-> stored_event(sid, i - 1)]]
        /\ get_events_by_range(db, sid, None, -4) =
               [tag |-> "Ok", events |-> [i \in 1..3 |-> stored_event(sid, 3 - i)]]
        /\ get_events_by_range(db, sid, Some(to_string(1)), -4) =
               [tag |-> "Ok", events |-> [i \in 1..2 |-> stored_event(sid, 2 - i)]]

\* C28 (specification SpecDB): set_negociating_true(sid) returns SubjectNotFound and
\* writes nothing when no subject is stored at sid; otherwise it returns Ok and the
\* stored subject afterwards has ledger_state.negociating_next = true with every
\* other field of the subject and every other stored record unchanged.
C28_SetNegociatingTrue ==
    [][last'.op = "set_negociating_true" =>
          LET before == get_subject(db, last'.sid)
              pk == build_key(subject_db, to_str(last'.sid))
          IN  IF before.v = None
              THEN last'.res = "SubjectNotFound" /\ db' = db
              ELSE /\ last'.res = "Ok"
                   /\ get_subject(db', last'.sid).v =
                          Some([before.v[1] EXCEPT !.ledger_state.negociating_next = TRUE])
                   /\ StoredKeys(db') = StoredKeys(db)
                   /\ \A k \in StoredKeys(db) \ {pk} :
                          backend_get(db', k) = backend_get(db, k)]_vars

\* C28 witness: the flag was just set on a subject that stands at sn >= 1 while a
\* signature aggregate of the subject is stored
C28_Witness ==
    /\ last.op = "set_negociating_true" /\ last.res = "Ok"
    /\ get_subject(db, last.sid).v[1].ledger_state.negociating_next
    /\ stored_sn(db, last.sid) >= 1
    /\ \E n \in 0..MaxSn : get_signatures(db, last.sid, n).some

----------------------------------------------------------------------------
(* Write ordering inside apply_event_sourcing (specification SpecSteps) *)

\* the aggregate at (sid, sn - 1) was stored when the call started and is gone now
RemovedByCall ==
    /\ last.sn >= 1
    /\ get_signatures(last.db0, last.sid, last.sn - 1).some
    /\ ~get_signatures(db, last.sid, last.sn - 1).some

\* the stored subject has the event of the call applied
SubjectAdvanced == get_subject(db, last.sid).v = Some(last.subject)

\* C29: the subject put happens before the signature-aggregate delete: in every
\* intermediate state of apply_event_sourcing and in every state a crash in the
\* middle of the call leaves, if the aggregate at (sid, ec.sn - 1) has been removed by
\* the call then the stored subject has the event applied; the only partial outcome
\* is an advanced subject together with a leftover aggregate.
C29_PutBeforeDelete ==
    /\ last.op \in {"applying", "crashed"} =>
           /\ RemovedByCall => SubjectAdvanced
           /\ \/ db = last.db0
              \/ db = set_subject(last.db0, last.sid, last.subject)
              \/ \E build \in Builds :
                     db = apply_event_sourcing(last.db0, last.ec, build).db
    /\ (last.op = "apply_event_sourcing" /\ last.res = "Ok") =>
           /\ db = apply_event_sourcing(last.db0, last.ec, last.build).db
           /\ get_subject(db, last.sid).v =
                  Some(Subject_apply(get_subject(last.db0, last.sid).v[1], last.ec).v)

\* C29 witness: the call crashed between its two writes: the subject stands at the
\* event's sn and the aggregate at sn - 1 is still stored
C29_Witness ==
    /\ last.op = "crashed"
    /\ last.sn >= 1
    /\ SubjectAdvanced
    /\ stored_sn(db, last.sid) = last.sn
    /\ get_signatures(db, last.sid, last.sn - 1).some
    /\ db # last.db0

----------------------------------------------------------------------------
(* A failed Subject::apply (specification SpecApply) *)

\* C30: when Subject::apply fails inside apply_event_sourcing (for example with
\* SchemaValidationFailed) the call returns that error and the stored state is
\* unchanged: the stored subject, its sn included, is not rewritten and no signature
\* aggregate is deleted.
C30_FailedApplyWritesNothing ==
    /\ \A ec \in ApplyInputs, build \in Builds :
           LET subject == get_subject_result(db, ec.subject_id)
               r == apply_event_sourcing(db, ec, build)
           IN  (subject.tag = "Ok" /\ Subject_apply(subject.v[1], ec).tag # "Ok") =>
                   /\ r.res = Subject_apply(subject.v[1], ec).tag
                   /\ r.db = db
                   /\ get_subject(r.db, ec.subject_id) = get_subject(db, ec.subject_id)
                   /\ \A slot \in Slots :
                          get_signatures(r.db, slot[1], slot[2]) =
                              get_signatures(db, slot[1], slot[2])
    /\ (last.op = "apply_event_sourcing" /\ last.res = "SchemaValidationFailed") =>
           ~last.removed

\* C30 witness: an apply with sn s has just failed with SchemaValidationFailed; the
\* subject is stored with a smaller sn and the aggregate at s - 1 is still stored
C30_Witness ==
    /\ last.op = "apply_event_sourcing"
    /\ last.res = "SchemaValidationFailed"
    /\ last.sn >= 1
    /\ stored_sn(db, last.sid) < last.sn
    /\ get_signatures(db, last.sid, last.sn - 1).some

----------------------------------------------------------------------------
(* Properties of the request checks (specification SpecCheck) *)

CryptoErrors ==
    {"EventRequestHashingError", "EventRequestHashingConflict", "RequestSignatureInvalid"}

\* C14: check_signatures(req) returns Ok if and only if h = hash((req.request,
\* req.timestamp)) equals req.signature.content.event_content_hash, the request
\* signature verifies over h with the request signer, and every approval a has
\* a.event_request_hash = h and a signature that verifies with a's signer over
\* hash((a.event_request_hash, a.approval_type, a.expected_sn)); in every other case
\* it returns an error.
C14_CheckSignatures ==
    last.op = "check_signatures" =>
        LET req == last.req
            h == from_serializable_borsh(borsh_request_type(req.request) \o <<req.timestamp>>)
            valid ==
                /\ h = req.signature.content.event_content_hash
                /\ req.signature.signature = sign([public_key |-> req.signature.content.signer], h)
                /\ \A a \in req.approvals :
                       /\ a.content.event_request_hash = h
                       /\ a.signature =
                              sign([public_key |-> a.content.signer],
                                   from_serializable_borsh(borsh_approval_content(a.content)))
        IN  /\ valid <=> last.res = "Ok"
            /\ ~valid => last.res \in CryptoErrors

\* C14 witness: a request with two approvals, all signatures valid, was accepted
C14_Witness ==
    /\ last.op = "check_signatures"
    /\ last.res = "Ok"
    /\ Cardinality(last.req.approvals) = 2

----------------------------------------------------------------------------
(* Properties of the request-to-event builders (specification SpecBuild) *)

\* C31: create_subject_from_request returns NotCreateEvent for a State request; for a
\* Create request it returns that error never, it returns a subject and an event
\* whenever the schema accepts the payload, and what it returns is an event content
\* with sn 0, the default digest as previous_hash, the request signature's signer as
\* metadata.owner, namespace, governance_id and schema_id of the request, and a
\* subject that holds the generated key pair.
C31_CreateSubjectFromRequest ==
    last.op = "create_subject_from_request" =>
        LET request == last.req.request
            res == last.res
        IN  /\ request.type = "State" => res.tag = "NotCreateEvent"
            /\ request.type = "Create" =>
                   /\ res.tag # "NotCreateEvent"
                   /\ res.tag = "Ok" <=> request.data.payload.doc \in last.schema.accepts
            /\ res.tag = "Ok" =>
                   LET ec == res.event[1].event_content
                   IN  /\ ec.sn = 0
                       /\ ec.previous_hash = DigestIdentifier_default
                       /\ ec.metadata.owner = last.req.signature.content.signer
                       /\ ec.metadata.namespace = request.data.namespace
                       /\ ec.metadata.governance_id = request.data.governance_id
                       /\ ec.metadata.schema_id = request.data.schema_id
                       /\ ec.metadata.governance_version = last.governance_version
                       /\ ec.approved = last.approved
                       /\ res.subject[1].keys = Some(last.mc)

\* C31 witness: a Create request has been turned into a subject and an event
C31_Witness ==
    /\ last.op = "create_subject_from_request"
    /\ last.req.request.type = "Create"
    /\ last.res.tag = "Ok"
    /\ last.res.subject[1].keys # None

\* C32: get_event_from_state_request on a State request returns NotOwnerOfSubject when
\* subject.keys is None; an event it returns has sn = subject.subject_data.sn + 1, the
\* supplied prev_event_hash as previous_hash, and namespace, governance_id, schema_id
\* and owner of subject.subject_data; it returns one whenever the subject is owned,
\* has data and the schema accepts the payload; the subject passed in is as it was.
C32_GetEventFromStateRequest ==
    (last.op = "get_event_from_state_request" /\ last.req.request.type = "State") =>
        LET subject == last.subject
            res == last.res
        IN  /\ subject.keys = None => res.tag = "NotOwnerOfSubject"
            /\ subject.keys # None => res.tag # "NotOwnerOfSubject"
            /\ (/\ subject.keys # None
                /\ subject.subject_data # None
                /\ request_payload(last.req).doc \in SubjectSchema) => res.tag = "Ok"
            /\ res.tag = "Ok" =>
                   LET ec == res.event[1].event_content
                       subject_data == subject.subject_data[1]
                   IN  /\ ec.sn = subject_data.sn + 1
                       /\ ec.previous_hash = last.prev
                       /\ ec.metadata.namespace = subject_data.namespace
                       /\ ec.metadata.governance_id = subject_data.governance_id
                       /\ ec.metadata.schema_id = subject_data.schema_id
                       /\ ec.metadata.owner = subject_data.owner
            /\ last.subject_after = subject

\* C32 witness: a State request has been turned into an event of a subject that stands
\* at sn 1, with a previous hash that is not the default digest
C32_Witness ==
    /\ last.op = "get_event_from_state_request"
    /\ last.req.request.type = "State"
    /\ last.res.tag = "Ok"
    /\ last.subject.subject_data[1].sn = 1
    /\ last.prev # DigestIdentifier_default

\* C32 witness of the refusal: the subject is not owned
C32_NotOwner ==
    /\ last.op = "get_event_from_state_request"
    /\ last.req.request.type = "State"
    /\ last.subject.keys = None
    /\ last.res.tag = "NotOwnerOfSubject"

\* C39: every event get_event_from_state_request(subject, ...) returns has
\* event_content.subject_id = subject.subject_data.subject_id, also for a State
\* request whose subject_id names another subject.
C39_EventOfTheSubject ==
    (last.op = "get_event_from_state_request" /\ last.res.tag = "Ok") =>
        last.res.event[1].event_content.subject_id =
            last.subject.subject_data[1].subject_id

\* C33: check_against_schema with a schema that compiles, a JsonPatch payload and a
\* subject whose subject_data is None fails with InvalidUseOfJSONPATCH for every patch
\* string.
C33_SubjectDataCheckedFirst ==
    (/\ last.op = "check_against_schema"
     /\ last.schema.compiles
     /\ request_payload(last.req).kind = "JsonPatch"
     /\ last.subject.subject_data = None) => last.res = "InvalidUseOfJSONPATCH"

\* what holds instead: the patch string is parsed first
C33_PatchParsedFirst ==
    (/\ last.op = "check_against_schema"
     /\ last.schema.compiles
     /\ request_payload(last.req).kind = "JsonPatch"
     /\ last.subject.subject_data = None) =>
        last.res = IF from_str(request_payload(last.req).doc) = None
                   THEN "ErrorParsingJsonString"
                   ELSE "InvalidUseOfJSONPATCH"

----------------------------------------------------------------------------
(* The separator in caller input (specification SpecSeparator) *)

HasSeparator(string) == \E i \in 1..Len(string) : string[i] = separator

\* C34: the store rejects the separator in caller input: put, update and del with a
\* user key that contains U+10FFFF, or through a partition whose segment contains it,
\* return an error and write nothing, so no physical key written through one
\* partition falls inside the prefix of a partition that is not above it.
C34_SeparatorRejected ==
    /\ (/\ last.op \in {"put", "update", "del"}
        /\ \/ HasSeparator(last.key)
           \/ \E path \in SeparatorPaths :
                  /\ handle_of(path) = last.h
                  /\ \E i \in 1..Len(path) : HasSeparator(path[i])) =>
           last.res.tag # "Ok"
    /\ \A e \in DOMAIN shadow : \A path \in SeparatorPaths :
           starts_with(build_key(handle_of(e[1]), e[2]), PhysPrefix(path)) =>
               PathPrefix(path, e[1])

----------------------------------------------------------------------------
(* The order of the events of a subject (specification SpecOrder) *)

OrderQuantities == {-3, -2, -1, 1, 2, 3}

\* the n smallest and the n largest numbers of a set
Smallest(S, n) == {x \in S : Cardinality({y \in S : y < x}) < n}
Largest(S, n) == {x \in S : Cardinality({y \in S : y > x}) < n}

\* C35: get_events_by_range returns events in numeric sequence-number order: for a
\* subject with events stored at sn 0..n (n may be >= 10), a call with from = None and
\* q > 0 that returns, returns the events with the q smallest sn in ascending numeric
\* order, and with q < 0 the events with the |q| largest sn in descending order.
C35_NumericOrder ==
    \A sid \in Sids, q \in OrderQuantities :
        LET r == get_events_by_range(db, sid, None, q)
            sns == [i \in 1..Len(r.events) |-> r.events[i].event_content.sn]
            stored == {n \in OrderSns : get_event(db, sid, n).v # None}
        IN  (r.tag = "Ok" /\ \E n \in OrderSns : stored = 0..n) =>
                IF q > 0
                THEN /\ Range(sns) = Smallest(stored, q)
                     /\ \A i \in 1..Len(sns) - 1 : sns[i] < sns[i + 1]
                ELSE /\ Range(sns) = Largest(stored, abs(q))
                     /\ \A i \in 1..Len(sns) - 1 : sns[i] > sns[i + 1]

\* the same with one-digit sequence numbers only
C35_OneDigitOrder ==
    \A sid \in Sids, q \in OrderQuantities :
        LET r == get_events_by_range(db, sid, None, q)
            sns == [i \in 1..Len(r.events) |-> r.events[i].event_content.sn]
            stored == {n \in OrderSns : get_event(db, sid, n).v # None}
        IN  (r.tag = "Ok" /\ \A n \in stored : n < 10) =>
                IF q > 0
                THEN /\ Range(sns) = Smallest(stored, q)
                     /\ \A i \in 1..Len(sns) - 1 : sns[i] < sns[i + 1]
                ELSE /\ Range(sns) = Largest(stored, abs(q))
                     /\ \A i \in 1..Len(sns) - 1 : sns[i] > sns[i + 1]

----------------------------------------------------------------------------
(* Calls on two handles over one backend (specifications SpecSignatures, SpecFlag) *)

Returned(op) == last.op = op /\ \A i \in Handles : last.pc[i] = "done"

\* C37: no lost update: when two handles run set_signatures(sid, sn, S1) and
\* set_signatures(sid, sn, S2) with their backend get and put steps interleaved in
\* any order, the aggregate stored after both calls have returned contains every
\* signature of S1 and of S2, and every signature it held before.
C37_NoLostUpdate ==
    Returned("set_signatures on two handles") =>
        \A i \in Handles :
            last.signatures[i] \cup last.before
                \subseteq get_signatures(db, last.sid, last.sn).set

\* C38: the stored subject's sn never decreases under concurrency: for every
\* interleaving of the backend steps of set_negociating_true(sid) and
\* apply_event_sourcing(ec) on two handles, once both have returned and
\* apply_event_sourcing returned Ok, the stored subject has sn = ec.sn.
C38_ApplyNotUndone ==
    (/\ Returned("set_negociating_true and apply_event_sourcing")
     /\ last.res[2] = "Ok") =>
        stored_sn(db, last.sid) = last.ec.sn

\* what the flag update does keep: after set_negociating_true returned Ok the stored
\* subject has the flag, or the apply wrote after it
C38_FlagOrApplied ==
    (/\ Returned("set_negociating_true and apply_event_sourcing")
     /\ last.res[1] = "Ok") =>
        \/ get_subject(db, last.sid).v[1].ledger_state.negociating_next
        \/ get_subject(db, last.sid).v = last.subject[2]

----------------------------------------------------------------------------
(* apply_event_sourcing with sn 0 (specification SpecWrap) *)

\* the aggregate stored at the slot u64::MAX of a subject, if any
signatures_at_max(d, subject_id) ==
    get_bytes(d, partition(signature_db, to_str(subject_id)), u64_MAX_string)

\* C40: apply_event_sourcing(ec) with ec.sn = 0 on a stored subject computes no
\* out-of-range slot: the call does not abort on the subtraction ec.sn - 1 and
\* deletes no signature aggregate, in particular not the one at 2^64 - 1.
C40_NoSlotBelowZero ==
    \A ec \in ApplyInputs, build \in Builds :
        LET r == apply_event_sourcing(db, ec, build)
        IN  (ec.sn = 0 /\ get_subject_result(db, ec.subject_id).tag = "Ok") =>
                /\ r.res # "Panic"
                /\ ~r.removed
                /\ signatures_at_max(r.db, ec.subject_id) =
                       signatures_at_max(db, ec.subject_id)
                /\ \A slot \in Slots :
                       get_signatures(r.db, slot[1], slot[2]) =
                           get_signatures(db, slot[1], slot[2])

\* C40 in a build without overflow checks: the call returns, and what it deletes is
\* the aggregate at 2^64 - 1
C40_ReleaseDeletesNothing ==
    \A ec \in ApplyInputs :
        LET r == apply_event_sourcing(db, ec, "release")
        IN  (ec.sn = 0 /\ get_subject_result(db, ec.subject_id).tag = "Ok") =>
                /\ ~r.removed
                /\ signatures_at_max(r.db, ec.subject_id) =
                       signatures_at_max(db, ec.subject_id)

====
